---- MODULE Spec2Model ----
(***************************************************************************)
(* A model of the ice-frost threshold signature core: the Lagrange         *)
(* coefficients (src/utils.rs), the key types (src/keys.rs), participant   *)
(* construction and resharing (src/dkg/participant.rs) and the precomputed *)
(* nonce lists (src/sign/precomputation.rs).                               *)
(*                                                                         *)
(* The scalar field F is the prime field of order Q.  The group G has      *)
(* prime order Q, so it is isomorphic to (Z_Q, +): a point is written as   *)
(* its multiple of the generator B.  Participant indices are u32 values    *)
(* below Q, as in the code, where Q exceeds 2^32 and no two distinct u32   *)
(* map to the same field element.                                          *)
(***************************************************************************)
EXTENDS Integers, Sequences, FiniteSets, TLC

VARIABLES
    lag_pc,      \* "build" | "called" | "interpolated"
    lag_I,       \* all_indices: the slice handed to calculate_lagrange_coefficients
    lag_i,       \* my_index of the last call
    lag_res,     \* FrostResult of the last call
    lag_p,       \* coefficients of the polynomial interpolated
    lag_sum      \* sum over j in lag_I of lambda_j(lag_I) * p(j)

VARIABLES
    sh_pc,       \* "new" | "generated" | "dropped"
    sh_pub,      \* the PublicCommitmentShareList of the last generation
    sh_list,     \* the SecretCommitmentShareList: its commitments vector
    sh_arg,      \* the share handed to the last drop_share
    sh_before,   \* the commitments vector as it was before the last drop_share
    sh_released  \* the memory of the shares the last drop_share destroyed,
                 \* as it is when they are released

VARIABLES
    params,       \* the ThresholdParameters {n, t} of the key generation
    run_seed,     \* the seed of this run's random number generators
    broadcast,    \* index -> the Participant that index has broadcast, if any
    secrets,      \* index -> its Coefficients and Diffie-Hellman private key
    faults,       \* what misbehaving dealers have done so far
    round_one,    \* index -> the result of its new_state_internal, if any
    net,          \* index -> the encrypted shares it sent, as they arrive
    round_two,    \* index -> the result of its to_round_two, if any
    finished,     \* index -> the result of its finish, if any
    sig           \* the last aggregated signature, if any

VARIABLES
    old,          \* resharing: the finished key generation whose keys are reshared
    reshares       \* resharing: old index -> the result of its reshare, if any

VARIABLES
    vk_pc,          \* "build" | "called"
    vk_commitments, \* the commitments slice handed to verify
    vk_key,         \* the IndividualVerifyingKey verify was called on
    vk_res          \* FrostResult of the last verify

VARIABLES
    pt_pc,          \* "idle" | "made"
    pt_call,        \* the last constructor call: its name and arguments
    pt_made         \* what it returned: the Participant and its Coefficients

VARIABLES
    by_pc,          \* "idle" | "encoded" | "decoded"
    by_type,        \* the wire type of the last to_bytes / from_bytes
    by_value,       \* the value to_bytes was called on, if any
    by_bytes,       \* the bytes handed to from_bytes
    by_tamper,      \* what was done to the bytes since to_bytes
    by_back         \* FrostResult of the last from_bytes

lagVars == <<lag_pc, lag_I, lag_i, lag_res, lag_p, lag_sum>>

reVars == <<old, reshares>>

keyVars == <<vk_pc, vk_commitments, vk_key, vk_res>>

ptVars == <<pt_pc, pt_call, pt_made>>

byVars == <<by_pc, by_type, by_value, by_bytes, by_tamper, by_back>>

fnVars == <<keyVars, ptVars, byVars>>

dkgVars == <<params, run_seed, broadcast, secrets, faults, round_one, net, round_two, finished, sig>>

shVars == <<sh_pc, sh_pub, sh_list, sh_arg, sh_before, sh_released>>

vars == <<lagVars, shVars, dkgVars, reVars, fnVars>>

----------------------------------------------------------------------------
(* Bounds of the model *)

\* longest index slice handed to calculate_lagrange_coefficients
MaxLen == 3
\* largest u32 index in those slices (kept below Q)
MaxIndex == 4
\* polynomial coefficients of the interpolation check are drawn from 0..MaxCoef
MaxCoef == 1
\* seeds of the random number generator are drawn from 0..MaxSeed
MaxSeed == 1
\* largest number_of_shares asked of generate_commitment_share_lists, and the
\* longest secret list a caller builds
MaxShares == 3
\* largest number n of participants of a key generation
MaxN == 3
\* largest number of misbehaviours in one run
MaxFaults == 1
\* largest number n' of new signers of a resharing
MaxNewN == 3
\* longest commitments slice handed to IndividualVerifyingKey::verify
MaxDealers == 2

----------------------------------------------------------------------------
(* The scalar field <C::G as Group>::ScalarField and the group C::G *)

\* order of the scalar field and of the group
Q == 7

Scalars == 0 .. (Q - 1)

\* ScalarField::ZERO, ScalarField::ONE
ZERO == 0
ONE == 1

FAdd(a, b) == (a + b) % Q
FSub(a, b) == (a + Q - b) % Q
FMul(a, b) == (a * b) % Q

\* Field::inverse(): None for zero, Some(x) with a * x = 1 otherwise
inverse(a) ==
    IF a % Q = 0 THEN [some |-> FALSE, val |-> 0]
    ELSE [some |-> TRUE, val |-> CHOOSE x \in 1 .. (Q - 1) : (a * x) % Q = 1]

\* ScalarField::from(u32)
FromU32(i) == i % Q

\* the points of C::G, written as multiples of the generator
Points == 0 .. (Q - 1)

\* G::zero(), the identity
GZero == 0

\* C::G::generator()
generator == 1

PAdd(P, R) == (P + R) % Q
\* P * s, P.mul(s)
PMul(P, s) == (P * s) % Q

----------------------------------------------------------------------------
(* Helpers on sequences *)

Range(s) == {s[k] : k \in DOMAIN s}

Count(x, s) == Cardinality({k \in DOMAIN s : s[k] = x})

IsDistinct(s) == \A a, b \in DOMAIN s : s[a] = s[b] => a = b

Reverse(s) == [k \in 1 .. Len(s) |-> s[Len(s) + 1 - k]]

----------------------------------------------------------------------------
(* src/utils.rs: calculate_lagrange_coefficients *)

Ok(v) == [ok |-> TRUE, val |-> v, err |-> "none"]
Err(e) == [ok |-> FALSE, val |-> 0, err |-> e]

\* the for loop of lines 39-47 over the rest of the slice; acc holds numerator
\* and denominator
RECURSIVE lagrange_loop(_, _, _)
lagrange_loop(my_index, rest, acc) ==
    IF rest = <<>> THEN acc
    ELSE LET j == Head(rest) IN
         IF j = my_index
         THEN lagrange_loop(my_index, Tail(rest), acc)
         ELSE LET s == FromU32(j) IN
              lagrange_loop(my_index, Tail(rest),
                  [numerator |-> FMul(acc.numerator, s),
                   denominator |-> FMul(acc.denominator,
                                        FSub(s, FromU32(my_index)))])

\* a slip in line 46: my_index - s in place of s - my_index
RECURSIVE lagrange_loop_swapped(_, _, _)
lagrange_loop_swapped(my_index, rest, acc) ==
    IF rest = <<>> THEN acc
    ELSE LET j == Head(rest) IN
         IF j = my_index
         THEN lagrange_loop_swapped(my_index, Tail(rest), acc)
         ELSE LET s == FromU32(j) IN
              lagrange_loop_swapped(my_index, Tail(rest),
                  [numerator |-> FMul(acc.numerator, s),
                   denominator |-> FMul(acc.denominator,
                                        FSub(FromU32(my_index), s))])

calculate_lagrange_coefficients_swapped(my_index, all_indices) ==
    LET acc == lagrange_loop_swapped(my_index, all_indices,
                   [numerator |-> ONE, denominator |-> ONE])
    IN  IF acc.denominator = ZERO
        THEN Err("Custom")
        ELSE Ok(FMul(acc.numerator, inverse(acc.denominator).val))

calculate_lagrange_coefficients(my_index, all_indices) ==
    LET acc == lagrange_loop(my_index, all_indices,
                   [numerator |-> ONE, denominator |-> ONE])
    IN  IF acc.denominator = ZERO
        THEN Err("Custom")
        ELSE Ok(FMul(acc.numerator, inverse(acc.denominator).val))

----------------------------------------------------------------------------
(* Polynomials over F: a sequence of coefficients, constant term first *)

RECURSIVE FPow(_, _)
FPow(x, k) == IF k = 0 THEN ONE ELSE FMul(x, FPow(x, k - 1))

RECURSIVE PolyEval(_, _)
PolyEval(p, x) ==
    IF p = <<>> THEN ZERO
    ELSE FAdd(Head(p), FMul(x, PolyEval(Tail(p), x)))

\* sum over the entries j of indices of lambda_j(all) * p(j), each lambda_j
\* being the value calculate_lagrange_coefficients(j, all) returns
RECURSIVE interpolation_sum(_, _, _)
interpolation_sum(indices, all, p) ==
    IF indices = <<>> THEN ZERO
    ELSE LET j == Head(indices)
             coeff == calculate_lagrange_coefficients(j, all)
         IN  FAdd(FMul(coeff.val, PolyEval(p, FromU32(j))),
                  interpolation_sum(Tail(indices), all, p))

----------------------------------------------------------------------------
(* The random number generator handed to the constructors: a seeded stream *)

\* the generator's next state
rng_next(x) == (x * 5 + 3) % 64

\* ScalarField::rand(&mut rng): the scalar drawn and the generator after it
rand(rng) == [val |-> (rng_next(rng) \div 4) % Q, rng |-> rng_next(rng)]

----------------------------------------------------------------------------
(* src/sign/precomputation.rs *)

\* NoncePair::new(csprng): two scalars drawn in turn
NoncePair_new(rng) ==
    LET a == rand(rng)
        b == rand(a.rng)
    IN  [pair |-> <<a.val, b.val>>, rng |-> b.rng]

\* impl From<NoncePair> for CommitmentShare
CommitmentShare_from(pair) ==
    LET x == PMul(generator, pair[1])
        y == PMul(generator, pair[2])
    IN  [hiding  |-> [secret |-> pair[1], commit |-> x],
         binding |-> [secret |-> pair[2], commit |-> y]]

\* impl Zeroize for Commitment: the secret is wiped, the point set to identity
Commitment_zeroize(c) == [secret |-> ZERO, commit |-> GZero]

\* a slip in the zeroization: the binding commitment is left as it is
CommitmentShare_zeroize_hiding(s) ==
    [hiding |-> Commitment_zeroize(s.hiding),
     binding |-> s.binding]

\* derive(Zeroize) and Drop for CommitmentShare: both fields are zeroized
CommitmentShare_zeroize(s) ==
    [hiding |-> Commitment_zeroize(s.hiding),
     binding |-> Commitment_zeroize(s.binding)]

\* impl PartialEq for Commitment
Commitment_eq(a, b) == (a.secret = b.secret) /\ (a.commit = b.commit)

\* impl PartialEq for CommitmentShare
CommitmentShare_eq(a, b) ==
    Commitment_eq(a.hiding, b.hiding) /\ Commitment_eq(a.binding, b.binding)

\* a slip in publish: the binding commitment comes first
publish_swapped(s) == <<s.binding.commit, s.hiding.commit>>

\* CommitmentShare::publish
publish(s) == <<s.hiding.commit, s.binding.commit>>

\* the first loop of generate_commitment_share_lists: n shares pushed in turn
RECURSIVE generate_shares(_, _)
generate_shares(rng, n) ==
    IF n = 0 THEN <<>>
    ELSE LET np == NoncePair_new(rng)
         IN  <<CommitmentShare_from(np.pair)>> \o generate_shares(np.rng, n - 1)

generate_commitment_share_lists(csprng, participant_index, number_of_shares) ==
    LET commitments == generate_shares(csprng, number_of_shares)
        published == [k \in 1 .. Len(commitments) |-> publish(commitments[k])]
    IN  [pub |-> [participant_index |-> participant_index,
                  commitments |-> published],
         sec |-> [commitments |-> commitments]]

\* a slip in the search loop: the first match is kept
RECURSIVE drop_share_find_first(_, _, _, _)
drop_share_find_first(commitments, share, i, index) ==
    IF i >= Len(commitments) THEN index
    ELSE drop_share_find_first(commitments, share, i + 1,
             IF CommitmentShare_eq(commitments[i + 1], share) /\ index < 0
             THEN i ELSE index)

\* the search loop of drop_share (lines 236-240): index is overwritten by every
\* match; positions are counted from 0 as in the code, i being the position of
\* commitments[i + 1]
RECURSIVE drop_share_find(_, _, _, _)
drop_share_find(commitments, share, i, index) ==
    IF i >= Len(commitments) THEN index
    ELSE drop_share_find(commitments, share, i + 1,
             IF CommitmentShare_eq(commitments[i + 1], share) THEN i ELSE index)

\* Vec::remove(index), index counted from 0
Vec_remove(v, index) ==
    [k \in 1 .. (Len(v) - 1) |-> IF k <= index THEN v[k] ELSE v[k + 1]]

\* a slip in drop_share: index starts at 0 in place of -1
drop_share_from_zero(commitments, share) ==
    LET index == drop_share_find(commitments, share, 0, 0)
    IN  IF index >= 0 /\ index < Len(commitments)
        THEN [commitments |-> Vec_remove(commitments, index),
              released |-> <<CommitmentShare_zeroize(commitments[index + 1]),
                             CommitmentShare_zeroize(share)>>]
        ELSE [commitments |-> commitments,
              released |-> <<CommitmentShare_zeroize(share)>>]

\* SecretCommitmentShareList::drop_share: the list after the call and the
\* memory of the shares it destroyed (the removed element, then the argument)
drop_share(commitments, share) ==
    LET index == drop_share_find(commitments, share, 0, -1)
    IN  IF index >= 0
        THEN [commitments |-> Vec_remove(commitments, index),
              released |-> <<CommitmentShare_zeroize(commitments[index + 1]),
                             CommitmentShare_zeroize(share)>>]
        ELSE [commitments |-> commitments,
              released |-> <<CommitmentShare_zeroize(share)>>]

----------------------------------------------------------------------------
(* src/utils.rs: the hashes.  The hasher is the ciphersuite's; the model keeps *)
(* what the code relies on: a deterministic map of (context, message) to a     *)
(* scalar, and a digest that differs whenever context or message differ.       *)

RECURSIVE hash_fold(_, _)
hash_fold(msg, acc) ==
    IF msg = <<>> THEN acc
    ELSE hash_fold(Tail(msg), (acc * 3 + Head(msg) + 1) % Q)

\* the context strings in use, as the hasher's domain separation
context_tag(context_string) ==
    CASE context_string = "nizk" -> 1
      [] context_string = "rho" -> 2
      [] context_string = "chal" -> 3
      [] OTHER -> 0

\* hash_to_field(context_string, message_to_hash); a message is a sequence of
\* numbers
hash_to_field(context_string, message_to_hash) ==
    hash_fold(message_to_hash, context_tag(context_string))

\* hash_to_array(context_string, message_to_hash)
hash_to_array(context_string, message_to_hash) ==
    <<context_string, message_to_hash>>

----------------------------------------------------------------------------
(* Option and the Schnorr proof of knowledge (spec 4.2; its code is not part  *)
(* of the sources at hand)                                                    *)

None == [some |-> FALSE, val |-> 0]
Some(v) == [some |-> TRUE, val |-> v]

\* NizkPokOfSecretKey::prove(index, secret, public, rng): R = k*B,
\* c = H(ctx, index || public || R), z = k + c*secret
NizkPokOfSecretKey_prove(index, secret, public, rng) ==
    LET k == rand(rng)
        R == PMul(generator, k.val)
        c == hash_to_field("nizk", <<index, public, R>>)
    IN  [proof |-> [R |-> R, z |-> FAdd(k.val, FMul(c, secret))],
         rng |-> k.rng]

\* NizkPokOfSecretKey::verify(index, public): z*B = R + c*public
NizkPokOfSecretKey_verify(proof, index, public) ==
    LET c == hash_to_field("nizk", <<index, public, proof.R>>)
    IN  PMul(generator, proof.z) = PAdd(proof.R, PMul(public, c))

----------------------------------------------------------------------------
(* src/keys.rs *)

\* the inner loop of verify and generate_from_commitments (lines 201-207):
\* points taken from the last to the first, k counting them from 0; tmp is
\* multiplied by term after every point but the last one taken
RECURSIVE horner_loop(_, _, _, _)
horner_loop(points, term, k, tmp) ==
    IF k >= Len(points) THEN tmp
    ELSE LET com == points[Len(points) - k]
             added == PAdd(tmp, com)
         IN  horner_loop(points, term, k + 1,
                 IF k # Len(points) - 1 THEN PMul(added, term) ELSE added)

\* a slip in the loop: the points taken from the first to the last
RECURSIVE horner_loop_forward(_, _, _, _)
horner_loop_forward(points, term, k, tmp) ==
    IF k >= Len(points) THEN tmp
    ELSE LET com == points[k + 1]
             added == PAdd(tmp, com)
         IN  horner_loop_forward(points, term, k + 1,
                 IF k # Len(points) - 1 THEN PMul(added, term) ELSE added)

\* index_vector: the index of every commitment, in order (lines 194-197)
index_vector_of(commitments) ==
    [k \in 1 .. Len(commitments) |-> commitments[k].index]

\* the outer loop (lines 143-160 and 199-212) over commitments[k..]:
\* share += tmp * coeff; failed marks an Err of calculate_lagrange_coefficients,
\* which verify returns as Custom and generate_from_commitments unwraps
RECURSIVE commitments_loop(_, _, _, _, _)
commitments_loop(commitments, index_vector, term, k, share) ==
    IF k > Len(commitments) THEN [failed |-> FALSE, share |-> share]
    ELSE LET commitment == commitments[k]
             tmp == horner_loop(commitment.points, term, 0, GZero)
             coeff == calculate_lagrange_coefficients(commitment.index,
                                                      index_vector)
         IN  IF ~coeff.ok THEN [failed |-> TRUE, share |-> GZero]
             ELSE commitments_loop(commitments, index_vector, term, k + 1,
                      PAdd(share, PMul(tmp, coeff.val)))

RECURSIVE commitments_loop_forward(_, _, _, _, _)
commitments_loop_forward(commitments, index_vector, term, k, share) ==
    IF k > Len(commitments) THEN [failed |-> FALSE, share |-> share]
    ELSE LET commitment == commitments[k]
             tmp == horner_loop_forward(commitment.points, term, 0, GZero)
             coeff == calculate_lagrange_coefficients(commitment.index,
                                                      index_vector)
         IN  IF ~coeff.ok THEN [failed |-> TRUE, share |-> GZero]
             ELSE commitments_loop_forward(commitments, index_vector, term,
                      k + 1, PAdd(share, PMul(tmp, coeff.val)))

generate_from_commitments_forward(participant_index, commitments) ==
    LET r == commitments_loop_forward(commitments, index_vector_of(commitments),
                 FromU32(participant_index), 1, GZero)
    IN  [panic |-> r.failed, index |-> participant_index, share |-> r.share]

\* IndividualVerifyingKey::generate_from_commitments; panic marks the unwrap
\* of a failed coefficient
generate_from_commitments(participant_index, commitments) ==
    LET r == commitments_loop(commitments, index_vector_of(commitments),
                 FromU32(participant_index), 1, GZero)
    IN  [panic |-> r.failed, index |-> participant_index, share |-> r.share]

\* a slip in verify: the points of a commitment taken from the first to the last
IndividualVerifyingKey_verify_forward(key, commitments) ==
    LET r == commitments_loop_forward(commitments, index_vector_of(commitments),
                 FromU32(key.index), 1, GZero)
    IN  IF r.failed THEN Err("Custom")
        ELSE IF key.share = r.share THEN Ok(0)
        ELSE Err("ShareVerificationError")

\* IndividualVerifyingKey::verify: key is {index, share}
IndividualVerifyingKey_verify(key, commitments) ==
    LET r == commitments_loop(commitments, index_vector_of(commitments),
                 FromU32(key.index), 1, GZero)
    IN  IF r.failed THEN Err("Custom")
        ELSE IF key.share = r.share THEN Ok(0)
        ELSE Err("ShareVerificationError")

\* IndividualSigningKey::to_public: signing key is {index, key}
to_public(signing_key) ==
    [panic |-> FALSE, index |-> signing_key.index,
     share |-> PMul(generator, signing_key.key)]

----------------------------------------------------------------------------
(* src/dkg/participant.rs *)

\* k scalars drawn in turn
RECURSIVE rand_seq(_, _)
rand_seq(rng, k) ==
    IF k <= 0 THEN [vals |-> <<>>, rng |-> rng]
    ELSE LET a == rand(rng)
             rest == rand_seq(a.rng, k - 1)
         IN  [vals |-> <<a.val>> \o rest.vals, rng |-> rest.rng]

\* a slip in new_internal: the supplied secret key is ignored and the constant
\* coefficient sampled
new_internal_fresh(parameters, is_signer, index, secret_key, rng) ==
    LET t == parameters.t
        dh == rand(rng)
        dh_public_key == PMul(generator, dh.val)
        pdh == NizkPokOfSecretKey_prove(index, dh.val, dh_public_key, dh.rng)
        first == rand(pdh.rng)
        rest == rand_seq(first.rng, t - 1)
        coefficients == <<first.val>> \o rest.vals
        points == [j \in 1 .. t |-> PMul(generator, coefficients[j])]
        psk == NizkPokOfSecretKey_prove(index, coefficients[1], points[1],
                                        rest.rng)
    IN  IF is_signer
        THEN [participant |->
                  [index |-> index,
                   dh_public_key |-> dh_public_key,
                   commitments |-> None,
                   proof_of_secret_key |-> None,
                   proof_of_dh_private_key |-> pdh.proof],
              coefficients |-> None,
              dh_private_key |-> dh.val]
        ELSE [participant |->
                  [index |-> index,
                   dh_public_key |-> dh_public_key,
                   commitments |-> Some([index |-> index, points |-> points]),
                   proof_of_secret_key |-> Some(psk.proof),
                   proof_of_dh_private_key |-> pdh.proof],
              coefficients |-> Some(coefficients),
              dh_private_key |-> dh.val]

\* a slip in new_internal: the proof of the secret key is made with the
\* Diffie-Hellman private key
new_internal_dh_proof(parameters, is_signer, index, secret_key, rng) ==
    LET t == parameters.t
        dh == rand(rng)
        dh_public_key == PMul(generator, dh.val)
        pdh == NizkPokOfSecretKey_prove(index, dh.val, dh_public_key, dh.rng)
        first == IF secret_key.some
                 THEN [val |-> secret_key.val, rng |-> pdh.rng]
                 ELSE rand(pdh.rng)
        rest == rand_seq(first.rng, t - 1)
        coefficients == <<first.val>> \o rest.vals
        points == [j \in 1 .. t |-> PMul(generator, coefficients[j])]
        psk == NizkPokOfSecretKey_prove(index, dh.val, points[1], rest.rng)
    IN  IF is_signer
        THEN [participant |->
                  [index |-> index,
                   dh_public_key |-> dh_public_key,
                   commitments |-> None,
                   proof_of_secret_key |-> None,
                   proof_of_dh_private_key |-> pdh.proof],
              coefficients |-> None,
              dh_private_key |-> dh.val]
        ELSE [participant |->
                  [index |-> index,
                   dh_public_key |-> dh_public_key,
                   commitments |-> Some([index |-> index, points |-> points]),
                   proof_of_secret_key |-> Some(psk.proof),
                   proof_of_dh_private_key |-> pdh.proof],
              coefficients |-> Some(coefficients),
              dh_private_key |-> dh.val]

\* Participant::new_internal: the participant, its coefficients (None for a
\* signer) and its Diffie-Hellman private key
new_internal(parameters, is_signer, index, secret_key, rng) ==
    LET t == parameters.t
        dh == rand(rng)
        dh_public_key == PMul(generator, dh.val)
        pdh == NizkPokOfSecretKey_prove(index, dh.val, dh_public_key, dh.rng)
        first == IF secret_key.some
                 THEN [val |-> secret_key.val, rng |-> pdh.rng]
                 ELSE rand(pdh.rng)
        rest == rand_seq(first.rng, t - 1)
        coefficients == <<first.val>> \o rest.vals
        points == [j \in 1 .. t |-> PMul(generator, coefficients[j])]
        psk == NizkPokOfSecretKey_prove(index, coefficients[1], points[1],
                                        rest.rng)
    IN  IF is_signer
        THEN [participant |->
                  [index |-> index,
                   dh_public_key |-> dh_public_key,
                   commitments |-> None,
                   proof_of_secret_key |-> None,
                   proof_of_dh_private_key |-> pdh.proof],
              coefficients |-> None,
              dh_private_key |-> dh.val]
        ELSE [participant |->
                  [index |-> index,
                   dh_public_key |-> dh_public_key,
                   commitments |-> Some([index |-> index, points |-> points]),
                   proof_of_secret_key |-> Some(psk.proof),
                   proof_of_dh_private_key |-> pdh.proof],
              coefficients |-> Some(coefficients),
              dh_private_key |-> dh.val]

\* Participant::new_dealer
new_dealer(parameters, index, rng) ==
    new_internal(parameters, FALSE, index, None, rng)

\* Participant::new_signer
new_signer(parameters, index, rng) ==
    new_internal(parameters, TRUE, index, None, rng)

\* VerifiableSecretSharingCommitment::public_key: the first point, if any
commitment_public_key(commitment) ==
    IF commitment.points = <<>> THEN None ELSE Some(commitment.points[1])

\* Participant::public_key
public_key(participant) ==
    IF participant.commitments.some
    THEN commitment_public_key(participant.commitments.val)
    ELSE None

----------------------------------------------------------------------------
(* Serialization: to_bytes and from_bytes of the wire types.  Both hand the *)
(* value to the derived CanonicalSerialize / CanonicalDeserialize, field by  *)
(* field in definition order.  A byte of the model stands for one            *)
(* fixed-width field of the wire format: an integer, a canonical scalar, a   *)
(* compressed point, a length prefix or the presence tag of an Option.       *)

\* the values of a byte are 0 .. ByteFF: the canonical scalars 0..Q-1, the byte
\* of the point at infinity, and the byte with every bit set
InfinityByte == Q
ByteFF == Q + 1

\* Writing.  The writers of the fields: each byte with the kind of field it
\* belongs to
write_u32(i) == <<[kind |-> "u32", byte |-> i]>>
write_len(n) == <<[kind |-> "len", byte |-> n]>>
write_tag(present) == <<[kind |-> "tag", byte |-> IF present THEN 1 ELSE 0]>>
write_scalar(x) == <<[kind |-> "scalar", byte |-> x]>>
write_point(P) == <<[kind |-> "point", byte |-> IF P = GZero THEN InfinityByte ELSE P]>>

\* Commitment {secret, commit}
write_Commitment(c) == write_scalar(c.secret) \o write_point(c.commit)

\* CommitmentShare {hiding, binding}
write_CommitmentShare(s) == write_Commitment(s.hiding) \o write_Commitment(s.binding)

\* an element of a Vec: a point, a pair of points, a CommitmentShare
write_elem(kind, e) ==
    CASE kind = "point" -> write_point(e)
      [] kind = "pair" -> write_point(e[1]) \o write_point(e[2])
      [] kind = "share" -> write_CommitmentShare(e)

\* Vec<T>: the elements in turn, after the length
RECURSIVE write_vec(_, _)
write_vec(kind, v) ==
    IF v = <<>> THEN <<>> ELSE write_elem(kind, Head(v)) \o write_vec(kind, Tail(v))

\* NizkPokOfSecretKey (R, z)
write_NizkPokOfSecretKey(proof) == write_point(proof.R) \o write_scalar(proof.z)

\* VerifiableSecretSharingCommitment {index, points}
write_VerifiableSecretSharingCommitment(c) ==
    write_u32(c.index) \o write_len(Len(c.points)) \o write_vec("point", c.points)

\* Participant {index, dh_public_key, commitments, proof_of_secret_key,
\* proof_of_dh_private_key}
write_Participant(p) ==
    write_u32(p.index) \o write_point(p.dh_public_key)
        \o write_tag(p.commitments.some)
        \o (IF p.commitments.some
            THEN write_VerifiableSecretSharingCommitment(p.commitments.val)
            ELSE <<>>)
        \o write_tag(p.proof_of_secret_key.some)
        \o (IF p.proof_of_secret_key.some
            THEN write_NizkPokOfSecretKey(p.proof_of_secret_key.val)
            ELSE <<>>)
        \o write_NizkPokOfSecretKey(p.proof_of_dh_private_key)

\* IndividualVerifyingKey {index, share}
write_IndividualVerifyingKey(k) == write_u32(k.index) \o write_point(k.share)

\* IndividualSigningKey {index, key}
write_IndividualSigningKey(k) == write_u32(k.index) \o write_scalar(k.key)

\* SecretCommitmentShareList {commitments}
write_SecretCommitmentShareList(l) ==
    write_len(Len(l.commitments)) \o write_vec("share", l.commitments)

\* PublicCommitmentShareList {participant_index, commitments}
write_PublicCommitmentShareList(l) ==
    write_u32(l.participant_index) \o write_len(Len(l.commitments))
        \o write_vec("pair", l.commitments)

\* the wire types
WireTypes ==
    {"Participant", "DiffieHellmanPrivateKey", "DiffieHellmanPublicKey",
     "IndividualVerifyingKey", "IndividualSigningKey", "GroupKey", "Commitment",
     "CommitmentShare", "SecretCommitmentShareList", "PublicCommitmentShareList"}

\* serialize_compressed of a value x of the type: its fields in order
layout(type, x) ==
    CASE type = "Participant" -> write_Participant(x)
      [] type = "DiffieHellmanPrivateKey" -> write_scalar(x)
      [] type = "DiffieHellmanPublicKey" -> write_point(x)
      [] type = "IndividualVerifyingKey" -> write_IndividualVerifyingKey(x)
      [] type = "IndividualSigningKey" -> write_IndividualSigningKey(x)
      [] type = "GroupKey" -> write_point(x)
      [] type = "Commitment" -> write_Commitment(x)
      [] type = "CommitmentShare" -> write_CommitmentShare(x)
      [] type = "SecretCommitmentShareList" -> write_SecretCommitmentShareList(x)
      [] type = "PublicCommitmentShareList" -> write_PublicCommitmentShareList(x)

\* Reading.  The reader of a field decodes one byte: it fails on a scalar
\* that is not canonical, on a byte that is no point of the group, on a tag
\* that is neither 0 nor 1
read_field(kind, byte) ==
    CASE kind = "scalar" ->
             IF byte < Q THEN [ok |-> TRUE, val |-> byte] ELSE [ok |-> FALSE, val |-> 0]
      [] kind = "point" ->
             IF byte = InfinityByte THEN [ok |-> TRUE, val |-> GZero]
             ELSE IF byte >= 1 /\ byte < Q THEN [ok |-> TRUE, val |-> byte]
             ELSE [ok |-> FALSE, val |-> 0]
      [] kind = "tag" -> [ok |-> byte \in {0, 1}, val |-> (byte = 1)]
      [] OTHER -> [ok |-> TRUE, val |-> byte]

\* a slip in the field order of Commitment: the point is read before the scalar
members_swapped(type) ==
    CASE type = "Participant" ->
             <<"u32", "point", "Option<VerifiableSecretSharingCommitment>",
               "Option<NizkPokOfSecretKey>", "NizkPokOfSecretKey">>
      [] type = "VerifiableSecretSharingCommitment" -> <<"u32", "Vec<point>">>
      [] type = "NizkPokOfSecretKey" -> <<"point", "scalar">>
      [] type = "DiffieHellmanPrivateKey" -> <<"scalar">>
      [] type = "DiffieHellmanPublicKey" -> <<"point">>
      [] type = "IndividualVerifyingKey" -> <<"u32", "point">>
      [] type = "IndividualSigningKey" -> <<"u32", "scalar">>
      [] type = "GroupKey" -> <<"point">>
      [] type = "Commitment" -> <<"point", "scalar">>
      [] type = "CommitmentShare" -> <<"Commitment", "Commitment">>
      [] type = "SecretCommitmentShareList" -> <<"Vec<CommitmentShare>">>
      [] type = "PublicCommitmentShareList" -> <<"u32", "Vec<pair>">>
      [] type = "pair" -> <<"point", "point">>
      [] OTHER -> <<>>

\* the members of a struct, in the order of its definition, which is the
\* order the derived deserialization reads them in; a field has none
members(type) ==
    CASE type = "Participant" ->
             <<"u32", "point", "Option<VerifiableSecretSharingCommitment>",
               "Option<NizkPokOfSecretKey>", "NizkPokOfSecretKey">>
      [] type = "VerifiableSecretSharingCommitment" -> <<"u32", "Vec<point>">>
      [] type = "NizkPokOfSecretKey" -> <<"point", "scalar">>
      [] type = "DiffieHellmanPrivateKey" -> <<"scalar">>
      [] type = "DiffieHellmanPublicKey" -> <<"point">>
      [] type = "IndividualVerifyingKey" -> <<"u32", "point">>
      [] type = "IndividualSigningKey" -> <<"u32", "scalar">>
      [] type = "GroupKey" -> <<"point">>
      [] type = "Commitment" -> <<"scalar", "point">>
      [] type = "CommitmentShare" -> <<"Commitment", "Commitment">>
      [] type = "SecretCommitmentShareList" -> <<"Vec<CommitmentShare>">>
      [] type = "PublicCommitmentShareList" -> <<"u32", "Vec<pair>">>
      [] type = "pair" -> <<"point", "point">>
      [] OTHER -> <<>>

\* the field an item starts with: the tag of an Option, the length of a Vec,
\* the field itself; "" for a struct, which starts with its first member
first_field(item) ==
    CASE item \in {"u32", "scalar", "point"} -> item
      [] item \in {"Option<VerifiableSecretSharingCommitment>",
                   "Option<NizkPokOfSecretKey>"} -> "tag"
      [] item \in {"Vec<point>", "Vec<pair>", "Vec<CommitmentShare>"} -> "len"
      [] OTHER -> ""

\* what is read after the first field of an item, v being its value: the
\* value of an Option that is present, the elements of a Vec of length v
rest_of(item, v) ==
    CASE item = "Option<VerifiableSecretSharingCommitment>" ->
             IF v THEN <<"VerifiableSecretSharingCommitment">> ELSE <<>>
      [] item = "Option<NizkPokOfSecretKey>" ->
             IF v THEN <<"NizkPokOfSecretKey">> ELSE <<>>
      [] item = "Vec<point>" -> [k \in 1 .. v |-> "point"]
      [] item = "Vec<pair>" -> [k \in 1 .. v |-> "pair"]
      [] item = "Vec<CommitmentShare>" -> [k \in 1 .. v |-> "CommitmentShare"]
      [] OTHER -> <<>>

\* the reader: the items still to read, the bytes, the position of the next
\* byte, the values of the fields read so far.  It fails when the bytes end
\* before the items do and when a field is invalid; it stops when no item is
\* left.
RECURSIVE read_items(_, _, _, _)
read_items(items, bytes, pos, acc) ==
    IF items = <<>> THEN [ok |-> TRUE, fields |-> acc, pos |-> pos]
    ELSE IF first_field(Head(items)) = ""
    THEN read_items(members(Head(items)) \o Tail(items), bytes, pos, acc)
    ELSE IF pos > Len(bytes) THEN [ok |-> FALSE, fields |-> <<>>, pos |-> pos]
    ELSE LET f == read_field(first_field(Head(items)), bytes[pos])
         IN  IF ~f.ok THEN [ok |-> FALSE, fields |-> <<>>, pos |-> pos]
             ELSE read_items(rest_of(Head(items), f.val) \o Tail(items),
                             bytes, pos + 1, Append(acc, f.val))

\* the values the fields read make up.  f holds the values of the fields in
\* the order read, o is the position before the first field of the value.
Commitment_at(f, o) == [secret |-> f[o + 1], commit |-> f[o + 2]]

CommitmentShare_at(f, o) ==
    [hiding |-> Commitment_at(f, o), binding |-> Commitment_at(f, o + 2)]

NizkPokOfSecretKey_at(f, o) == [R |-> f[o + 1], z |-> f[o + 2]]

\* an Option<VerifiableSecretSharingCommitment>: its tag, then index, length
\* and points; and the number of fields it takes
commitments_at(f, o) ==
    IF f[o + 1]
    THEN Some([index |-> f[o + 2], points |-> [k \in 1 .. f[o + 3] |-> f[o + 3 + k]]])
    ELSE None

commitments_width(f, o) == IF f[o + 1] THEN 3 + f[o + 3] ELSE 1

\* an Option<NizkPokOfSecretKey>, and the number of fields it takes
proof_at(f, o) == IF f[o + 1] THEN Some(NizkPokOfSecretKey_at(f, o + 1)) ELSE None

proof_width(f, o) == IF f[o + 1] THEN 3 ELSE 1

Participant_at(f) ==
    [index |-> f[1],
     dh_public_key |-> f[2],
     commitments |-> commitments_at(f, 2),
     proof_of_secret_key |-> proof_at(f, 2 + commitments_width(f, 2)),
     proof_of_dh_private_key |->
         NizkPokOfSecretKey_at(f, 2 + commitments_width(f, 2)
                                    + proof_width(f, 2 + commitments_width(f, 2)))]

value_of(type, f) ==
    CASE type = "Participant" -> Participant_at(f)
      [] type = "IndividualVerifyingKey" -> [index |-> f[1], share |-> f[2]]
      [] type = "IndividualSigningKey" -> [index |-> f[1], key |-> f[2]]
      [] type = "Commitment" -> Commitment_at(f, 0)
      [] type = "CommitmentShare" -> CommitmentShare_at(f, 0)
      [] type = "SecretCommitmentShareList" ->
             [commitments |-> [k \in 1 .. f[1] |-> CommitmentShare_at(f, 4 * k - 3)]]
      [] type = "PublicCommitmentShareList" ->
             [participant_index |-> f[1],
              commitments |-> [k \in 1 .. f[2] |-> <<f[2 * k + 1], f[2 * k + 2]>>]]
      [] OTHER -> f[1]

\* deserialize_compressed of the type on a reader over the bytes
deserialize_compressed(type, bytes) ==
    LET r == read_items(<<type>>, bytes, 1, <<>>)
    IN  IF r.ok THEN [ok |-> TRUE, val |-> value_of(type, r.fields)]
        ELSE [ok |-> FALSE, val |-> 0]

\* the error from_bytes maps a failure to: Participant::from_bytes names it
\* DeserializationError, the others DeserialisationError
deserialization_error(type) ==
    IF type = "Participant" THEN "DeserializationError" ELSE "DeserialisationError"

\* to_bytes: the bytes written to a Vec, which never fails
to_bytes(type, x) ==
    Ok([k \in 1 .. Len(layout(type, x)) |-> layout(type, x)[k].byte])

\* from_bytes: deserialize_compressed(bytes), its error mapped; what the
\* reader leaves unread is not looked at
from_bytes(type, bytes) ==
    LET r == deserialize_compressed(type, bytes)
    IN  IF r.ok THEN Ok(r.val) ELSE Err(deserialization_error(type))

----------------------------------------------------------------------------
(* The key generation rounds (spec 4.4).  Their code, dkg/key_generation.rs  *)
(* and dkg/secret_share.rs, is not part of the sources at hand; they are     *)
(* modelled from the specification.                                          *)

\* the share of a dealer for a recipient, encrypted under the key derived from
\* the Diffie-Hellman shared secret and both indices
encrypt_share(sender_index, receiver_index, value, dh_key) ==
    [sender_index |-> sender_index,
     receiver_index |-> receiver_index,
     key |-> hash_to_array("enc", <<dh_key, sender_index, receiver_index>>),
     plain |-> value]

\* authenticated decryption: DecryptionError under any other key
decrypt_share(encrypted_share, dh_key) ==
    IF encrypted_share.key =
           hash_to_array("enc", <<dh_key, encrypted_share.sender_index,
                                  encrypted_share.receiver_index>>)
    THEN Ok(encrypted_share.plain)
    ELSE Err("DecryptionError")

\* round one, steps 1 and 2: does peer p pass the proofs my_index checks?  A
\* participant does not check itself.
passes_round_one(my_index, p) ==
    \/ p.index = my_index
    \/ /\ NizkPokOfSecretKey_verify(p.proof_of_dh_private_key, p.index,
                                    p.dh_public_key)
       /\ p.commitments.some =>
              /\ p.proof_of_secret_key.some
              /\ public_key(p).some
              /\ NizkPokOfSecretKey_verify(p.proof_of_secret_key.val, p.index,
                                           public_key(p).val)

\* DistributedKeyGeneration::new_state_internal: the RoundOne state and the
\* DKGParticipantList {honest, misbehaving}
new_state_internal(parameters, dh_private_key, my_index, coefficients, participants, from_dealer, from_signer) ==
    LET Passes(p) == passes_round_one(my_index, p)
        Fails(p) == ~passes_round_one(my_index, p)
        IsDealer(p) == p.commitments.some
        honest == SelectSeq(participants, Passes)
        failing == SelectSeq(participants, Fails)
        dealers == SelectSeq(honest, IsDealer)
        shares ==
            [k \in 1 .. Len(honest) |->
                encrypt_share(my_index, honest[k].index,
                    PolyEval(coefficients.val, FromU32(honest[k].index)),
                    PMul(honest[k].dh_public_key, dh_private_key))]
    IN  [ok |-> TRUE,
         err |-> "none",
         state |->
             [index |-> my_index,
              dh_private_key |-> dh_private_key,
              their_commitments |->
                  IF from_signer
                  THEN [k \in 1 .. Len(dealers) |-> dealers[k].commitments.val]
                  ELSE <<>>,
              their_dh_public_keys |->
                  [k \in 1 .. Len(honest) |->
                      [index |-> honest[k].index,
                       key |-> honest[k].dh_public_key]],
              their_encrypted_secret_shares |->
                  IF from_dealer /\ coefficients.some
                  THEN Some(shares) ELSE None],
         lists |->
             [honest |-> [k \in 1 .. Len(honest) |-> honest[k].index],
              misbehaving |-> [k \in 1 .. Len(failing) |-> failing[k].index]]]

\* the Feldman right-hand side: sum over k of index^k * phi_k
feldman_rhs(points, index) ==
    LET RECURSIVE Sum(_)
        Sum(k) == IF k > Len(points) THEN GZero
                  ELSE PAdd(PMul(points[k], FPow(FromU32(index), k - 1)),
                            Sum(k + 1))
    IN  Sum(1)

\* round two, steps 1 and 2 for one inbound share: "accept" with the scalar,
\* "ignore" for a sender round one did not accept as a dealer, "misbehaving"
\* for a share that does not decrypt or fails the Feldman check
check_share(state, encrypted_share) ==
    LET s == encrypted_share.sender_index
        cs == SelectSeq(state.their_commitments, LAMBDA c : c.index = s)
        ks == SelectSeq(state.their_dh_public_keys, LAMBDA d : d.index = s)
    IN  IF cs = <<>> \/ ks = <<>>
        THEN [verdict |-> "ignore", sender_index |-> s, value |-> ZERO]
        ELSE LET plain == decrypt_share(encrypted_share,
                              PMul(ks[1].key, state.dh_private_key))
             IN  IF ~plain.ok
                 THEN [verdict |-> "misbehaving", sender_index |-> s,
                       value |-> ZERO]
                 ELSE IF PMul(generator, plain.val)
                             = feldman_rhs(cs[1].points, state.index)
                 THEN [verdict |-> "accept", sender_index |-> s,
                       value |-> plain.val]
                 ELSE [verdict |-> "misbehaving", sender_index |-> s,
                       value |-> ZERO]

\* a slip in to_round_two: exactly t accepted shares are refused
to_round_two_strict(state, parameters, my_encrypted_secret_shares) ==
    LET checked == [k \in 1 .. Len(my_encrypted_secret_shares) |->
                       check_share(state, my_encrypted_secret_shares[k])]
        accepted == SelectSeq(checked, LAMBDA c : c.verdict = "accept")
        rejected == SelectSeq(checked, LAMBDA c : c.verdict = "misbehaving")
        senders == {accepted[k].sender_index : k \in DOMAIN accepted}
    IN  [ok |-> Len(accepted) > parameters.t,
         err |-> IF Len(accepted) > parameters.t THEN "none"
                 ELSE "InsufficientShares",
         state |->
             [index |-> state.index,
              my_secret_shares |->
                  [k \in 1 .. Len(accepted) |->
                      [sender_index |-> accepted[k].sender_index,
                       value |-> accepted[k].value]],
              their_commitments |->
                  SelectSeq(state.their_commitments,
                            LAMBDA c : c.index \in senders),
              misbehaving |->
                  [k \in 1 .. Len(rejected) |-> rejected[k].sender_index]]]

\* DistributedKeyGeneration::<RoundOne>::to_round_two: fewer than t accepted
\* dealer shares is InsufficientShares, a bad share only marks its sender
to_round_two(state, parameters, my_encrypted_secret_shares) ==
    LET checked == [k \in 1 .. Len(my_encrypted_secret_shares) |->
                       check_share(state, my_encrypted_secret_shares[k])]
        accepted == SelectSeq(checked, LAMBDA c : c.verdict = "accept")
        rejected == SelectSeq(checked, LAMBDA c : c.verdict = "misbehaving")
        senders == {accepted[k].sender_index : k \in DOMAIN accepted}
    IN  [ok |-> Len(accepted) >= parameters.t,
         err |-> IF Len(accepted) >= parameters.t THEN "none"
                 ELSE "InsufficientShares",
         state |->
             [index |-> state.index,
              my_secret_shares |->
                  [k \in 1 .. Len(accepted) |->
                      [sender_index |-> accepted[k].sender_index,
                       value |-> accepted[k].value]],
              their_commitments |->
                  SelectSeq(state.their_commitments,
                            LAMBDA c : c.index \in senders),
              misbehaving |->
                  [k \in 1 .. Len(rejected) |-> rejected[k].sender_index]]]

\* the signing share of finish.  Section 4.4 of the specification writes it as
\* the plain sum of the accepted shares, and requires its public half to equal
\* generate_from_commitments, which weights dealer j by its Lagrange
\* coefficient over the accepted dealer indices (keys.rs 209-211, spec 4.5).
\* Only the weighted sum meets that requirement in an honest run, so the
\* weighted sum is what finish is modelled to compute.
signing_share(my_secret_shares) ==
    LET J == [k \in 1 .. Len(my_secret_shares) |->
                 my_secret_shares[k].sender_index]
        RECURSIVE Sum(_)
        Sum(k) ==
            IF k > Len(my_secret_shares) THEN Ok(ZERO)
            ELSE LET coeff == calculate_lagrange_coefficients(J[k], J)
                     rest == Sum(k + 1)
                 IN  IF ~coeff.ok THEN coeff
                     ELSE IF ~rest.ok THEN rest
                     ELSE Ok(FAdd(FMul(coeff.val, my_secret_shares[k].value),
                                  rest.val))
    IN  Sum(1)

\* the group key of finish: the accepted dealers' public keys phi_0, weighted
\* like the signing shares
group_key(their_commitments) ==
    LET J == index_vector_of(their_commitments)
        RECURSIVE Sum(_)
        Sum(k) ==
            IF k > Len(their_commitments) THEN Ok(GZero)
            ELSE LET coeff == calculate_lagrange_coefficients(J[k], J)
                     rest == Sum(k + 1)
                 IN  IF ~coeff.ok THEN coeff
                     ELSE IF ~rest.ok THEN rest
                     ELSE Ok(PAdd(PMul(commitment_public_key(
                                           their_commitments[k]).val, coeff.val),
                                  rest.val))
    IN  Sum(1)

\* DistributedKeyGeneration::<RoundTwo>::finish: the IndividualSigningKey and
\* the GroupKey, or ShareVerificationError when the public half of the signing
\* key is not the key generate_from_commitments derives
finish(state) ==
    LET key == signing_share(state.my_secret_shares)
        group == group_key(state.their_commitments)
        signing_key == [index |-> state.index, key |-> key.val]
        derived == generate_from_commitments(state.index,
                                             state.their_commitments)
    IN  IF ~key.ok \/ ~group.ok \/ derived.panic
        THEN [ok |-> FALSE, err |-> "Custom",
              signing_key |-> [index |-> state.index, key |-> ZERO],
              group_key |-> GZero]
        ELSE IF to_public(signing_key).share # derived.share
        THEN [ok |-> FALSE, err |-> "ShareVerificationError",
              signing_key |-> [index |-> state.index, key |-> ZERO],
              group_key |-> GZero]
        ELSE [ok |-> TRUE, err |-> "none",
              signing_key |-> signing_key,
              group_key |-> group.val]

----------------------------------------------------------------------------
(* src/dkg/participant.rs: reshare *)

\* a slip in reshare: the state is built with from_dealer = false
reshare_not_dealer(parameters, secret_key, signers, rng) ==
    LET made == new_internal(parameters, FALSE, secret_key.index,
                             Some(secret_key.key), rng)
        r == new_state_internal(parameters, made.dh_private_key,
                 secret_key.index, made.coefficients, signers, FALSE, FALSE)
    IN  IF ~r.ok
        THEN [ok |-> FALSE, err |-> r.err, panic |-> FALSE,
              dealer |-> made.participant, encrypted_shares |-> <<>>,
              participant_lists |-> r.lists]
        ELSE IF ~r.state.their_encrypted_secret_shares.some
        THEN [ok |-> FALSE, err |-> "none", panic |-> TRUE,
              dealer |-> made.participant, encrypted_shares |-> <<>>,
              participant_lists |-> r.lists]
        ELSE [ok |-> TRUE, err |-> "none", panic |-> FALSE,
              dealer |-> made.participant,
              encrypted_shares |-> r.state.their_encrypted_secret_shares.val,
              participant_lists |-> r.lists]

\* the dealer reshare builds (lines 241-250): new_internal on the index and
\* the key of the signing key, is_signer = false
reshare_dealer(parameters, secret_key, rng) ==
    new_internal(parameters, FALSE, secret_key.index, Some(secret_key.key), rng)

\* Participant::reshare: the dealer, the encrypted shares for the new signers
\* and the DKGParticipantList; an Err of new_state_internal is returned, a
\* missing share list panics
reshare(parameters, secret_key, signers, rng) ==
    LET made == new_internal(parameters, FALSE, secret_key.index,
                             Some(secret_key.key), rng)
        r == new_state_internal(parameters, made.dh_private_key,
                 secret_key.index, made.coefficients, signers, TRUE, FALSE)
    IN  IF ~r.ok
        THEN [ok |-> FALSE, err |-> r.err, panic |-> FALSE,
              dealer |-> made.participant, encrypted_shares |-> <<>>,
              participant_lists |-> r.lists]
        ELSE IF ~r.state.their_encrypted_secret_shares.some
        THEN [ok |-> FALSE, err |-> "none", panic |-> TRUE,
              dealer |-> made.participant, encrypted_shares |-> <<>>,
              participant_lists |-> r.lists]
        ELSE [ok |-> TRUE, err |-> "none", panic |-> FALSE,
              dealer |-> made.participant,
              encrypted_shares |-> r.state.their_encrypted_secret_shares.val,
              participant_lists |-> r.lists]

----------------------------------------------------------------------------
(* Signing (spec 4.7).  The signing round's code is not part of the sources *)
(* at hand; it is modelled from the contract the specification gives.       *)

\* encode(S, {(D, E)}): index, D and E of every signer in turn
RECURSIVE encode_commitments(_)
encode_commitments(published) ==
    IF published = <<>> THEN <<>>
    ELSE <<Head(published).index, Head(published).D, Head(published).E>>
             \o encode_commitments(Tail(published))

\* rho_j = hash_to_field(ctx || "rho", j || m || encode(S, {(D, E)}))
binding_factor(j, m, published) ==
    hash_to_field("rho", <<j, m>> \o encode_commitments(published))

\* R = sum over j of D_j + rho_j * E_j
RECURSIVE group_commitment(_, _, _)
group_commitment(rest, m, published) ==
    IF rest = <<>> THEN GZero
    ELSE LET h == Head(rest)
         IN  PAdd(PAdd(h.D, PMul(h.E, binding_factor(h.index, m, published))),
                  group_commitment(Tail(rest), m, published))

\* c = hash_to_field(ctx || "chal", R || Y || m)
challenge(R, Y, m) == hash_to_field("chal", <<R, Y, m>>)

\* z_i = d_i + rho_i * e_i + lambda_i(S) * s_i * c
partial_signature(signing_key, Y, share, m, published) ==
    LET S == [k \in 1 .. Len(published) |-> published[k].index]
        lambda == calculate_lagrange_coefficients(signing_key.index, S)
        rho == binding_factor(signing_key.index, m, published)
        R == group_commitment(published, m, published)
        c == challenge(R, Y, m)
    IN  IF ~lambda.ok THEN lambda
        ELSE Ok(FAdd(FAdd(share.hiding.secret,
                          FMul(rho, share.binding.secret)),
                     FMul(FMul(lambda.val, signing_key.key), c)))

\* the final check z*B = R + c*Y
signature_verifies(R, z, Y, m) ==
    PMul(generator, z) = PAdd(R, PMul(Y, challenge(R, Y, m)))

----------------------------------------------------------------------------
(* Spec: a key generation among n dealers, then one signature.  The steps *)
(* of different participants read nothing of each other within a phase, so *)
(* each phase runs in ascending order of the indices; the signature comes  *)
(* once the key generation has ended for every participant.                *)

\* the set s of indices as the ascending sequence of its elements
RECURSIVE Ascending(_)
Ascending(s) ==
    IF s = {} THEN <<>>
    ELSE LET m == CHOOSE x \in s : \A y \in s : x <= y
         IN  <<m>> \o Ascending(s \ {m})

\* the generator participant index starts from in a run with this seed
participant_rng(s, index) == (s * 16 + index * 3) % 64

\* the generator a signer's nonces are drawn from
nonce_rng(s, index) == (s * 16 + index * 5 + 32) % 64

Indices == 1 .. params.n

\* the message signed
Message == 4

\* a proof of knowledge an adversary has spoilt
spoilt(proof) == [R |-> proof.R, z |-> FAdd(proof.z, ONE)]

\* new_dealer(params, i, rng): participant i broadcasts its Participant
NewDealer(i) ==
    /\ i \in Indices
    /\ ~broadcast[i].some
    /\ \A k \in 1 .. (i - 1) : broadcast[k].some
    /\ LET made == new_dealer(params, i, participant_rng(run_seed, i))
       IN  /\ broadcast' = [broadcast EXCEPT ![i] = Some(made.participant)]
           /\ secrets' = [secrets EXCEPT ![i] =
                  [coefficients |-> made.coefficients,
                   dh_private_key |-> made.dh_private_key]]
    /\ UNCHANGED <<params, run_seed, faults, round_one, net, round_two, finished, sig>>
    /\ UNCHANGED <<lagVars, shVars, reVars>>
    /\ UNCHANGED fnVars

\* the participants whose key generation has ended, in failure or in a key
Settled ==
    {i \in Indices :
        \/ round_one[i].some /\ ~round_one[i].val.ok
        \/ round_two[i].some /\ ~round_two[i].val.ok
        \/ finished[i].some}

\* dealer j broadcasts a proof that does not verify
TamperProof(j, kind) ==
    /\ j \in Indices
    /\ broadcast[j].some
    /\ \A i \in Indices : ~round_one[i].some
    /\ Cardinality(faults) < MaxFaults
    /\ kind \in {"dh_proof", "sk_proof"}
    /\ ~\E f \in faults : f.dealer = j /\ f.kind = kind
    /\ LET p == broadcast[j].val
       IN  broadcast' = [broadcast EXCEPT ![j] = Some(
               IF kind = "dh_proof"
               THEN [p EXCEPT !.proof_of_dh_private_key = spoilt(@)]
               ELSE [p EXCEPT !.proof_of_secret_key = Some(spoilt(@.val))])]
    /\ faults' = faults \cup {[kind |-> kind, dealer |-> j, receiver |-> 0]}
    /\ UNCHANGED <<params, run_seed, secrets, round_one, net, round_two, finished, sig>>
    /\ UNCHANGED <<lagVars, shVars, reVars>>
    /\ UNCHANGED fnVars

\* new_state_internal of participant i on the broadcasts of all participants
RoundOne(i) ==
    /\ i \in Indices
    /\ \A j \in Indices : broadcast[j].some
    /\ ~round_one[i].some
    /\ \A k \in 1 .. (i - 1) : round_one[k].some
    /\ LET r == new_state_internal(params, secrets[i].dh_private_key, i,
                    secrets[i].coefficients,
                    [k \in 1 .. params.n |-> broadcast[k].val], TRUE, TRUE)
       IN  /\ round_one' = [round_one EXCEPT ![i] = Some(r)]
           /\ net' = [net EXCEPT ![i] =
                  IF r.ok /\ r.state.their_encrypted_secret_shares.some
                  THEN r.state.their_encrypted_secret_shares.val ELSE <<>>]
    /\ UNCHANGED <<params, run_seed, broadcast, secrets, faults, round_two, finished, sig>>
    /\ UNCHANGED <<lagVars, shVars, reVars>>
    /\ UNCHANGED fnVars

\* dealer j sends recipient i a share that is not the evaluation of its
\* polynomial ("share") or that is encrypted under another key ("cipher")
CorruptShare(j, i, kind) ==
    /\ j \in Indices /\ i \in Indices /\ i # j
    /\ round_one[j].some
    /\ ~round_two[i].some
    /\ Cardinality(faults) < MaxFaults
    /\ kind \in {"share", "cipher"}
    /\ ~\E f \in faults : f.dealer = j /\ f.receiver = i
    /\ \E k \in DOMAIN net[j] :
           /\ net[j][k].receiver_index = i
           /\ net' = [net EXCEPT ![j][k] =
                  IF kind = "share"
                  THEN [@ EXCEPT !.plain = FAdd(@, ONE)]
                  ELSE [@ EXCEPT !.key = hash_to_array("enc", <<"other">>)]]
    /\ faults' = faults \cup {[kind |-> kind, dealer |-> j, receiver |-> i]}
    /\ UNCHANGED <<params, run_seed, broadcast, secrets, round_one, round_two, finished, sig>>
    /\ UNCHANGED <<lagVars, shVars, reVars>>
    /\ UNCHANGED fnVars

\* the encrypted shares addressed to i, by ascending sender
inbound(i) ==
    LET RECURSIVE From(_)
        From(j) ==
            IF j > MaxN THEN <<>>
            ELSE SelectSeq(net[j], LAMBDA e : e.receiver_index = i) \o From(j + 1)
    IN  From(1)

\* to_round_two of participant i on the shares addressed to it
ToRoundTwo(i) ==
    /\ i \in Indices
    /\ \A j \in Indices : round_one[j].some
    /\ round_one[i].val.ok
    /\ ~round_two[i].some
    /\ \A k \in 1 .. (i - 1) : k \in Settled
    /\ round_two' = [round_two EXCEPT ![i] =
           Some(to_round_two(round_one[i].val.state, params, inbound(i)))]
    /\ UNCHANGED <<params, run_seed, broadcast, secrets, faults, round_one, net, finished, sig>>
    /\ UNCHANGED <<lagVars, shVars, reVars>>
    /\ UNCHANGED fnVars

\* finish of participant i
Finish(i) ==
    /\ i \in Indices
    /\ round_two[i].some
    /\ round_two[i].val.ok
    /\ ~finished[i].some
    /\ finished' = [finished EXCEPT ![i] = Some(finish(round_two[i].val.state))]
    /\ UNCHANGED <<params, run_seed, broadcast, secrets, faults, round_one, net, round_two, sig>>
    /\ UNCHANGED <<lagVars, shVars, reVars>>
    /\ UNCHANGED fnVars

\* the signers of S each draw one commitment share, publish it, and sign the
\* message; the partial signatures are summed and the result checked against
\* the group key of the first signer
Sign(S) ==
    /\ S \subseteq Indices
    /\ Indices \subseteq Settled
    /\ Cardinality(S) >= params.t
    /\ \A i \in S : finished[i].some /\ finished[i].val.ok
    /\ ~sig.some
    /\ LET order == Ascending(S)
           share(i) == generate_commitment_share_lists(nonce_rng(run_seed, i), i, 1)
                           .sec.commitments[1]
           published == [k \in 1 .. Len(order) |->
                            [index |-> order[k],
                             D |-> publish(share(order[k]))[1],
                             E |-> publish(share(order[k]))[2]]]
           partial(i) == partial_signature(finished[i].val.signing_key,
                             finished[i].val.group_key, share(i), Message,
                             published)
           RECURSIVE Sum(_)
           Sum(k) == IF k > Len(order) THEN ZERO
                     ELSE FAdd(partial(order[k]).val, Sum(k + 1))
           R == group_commitment(published, Message, published)
           Y == finished[order[1]].val.group_key
       IN  sig' = Some([signers |-> S,
                        partials_ok |-> \A i \in S : partial(i).ok,
                        R |-> R,
                        z |-> Sum(1),
                        Y |-> Y,
                        verifies |-> signature_verifies(R, Sum(1), Y, Message)])
    /\ UNCHANGED <<params, run_seed, broadcast, secrets, faults, round_one, net, round_two, finished>>
    /\ UNCHANGED <<lagVars, shVars, reVars>>
    /\ UNCHANGED fnVars

Next ==
    \/ \E i \in 1 .. MaxN : NewDealer(i)
    \/ \E j \in 1 .. MaxN, kind \in {"dh_proof", "sk_proof"} : TamperProof(j, kind)
    \/ \E i \in 1 .. MaxN : RoundOne(i)
    \/ \E j \in 1 .. MaxN, i \in 1 .. MaxN, kind \in {"share", "cipher"} :
           CorruptShare(j, i, kind)
    \/ \E i \in 1 .. MaxN : ToRoundTwo(i)
    \/ \E i \in 1 .. MaxN : Finish(i)
    \/ \E S \in SUBSET (1 .. MaxN) : Sign(S)

----------------------------------------------------------------------------
(* SpecReshare: the participants of a finished key generation reshare their *)
(* signing keys to a new set of signers.  The steps of different            *)
(* participants read nothing of each other, so each phase runs in ascending *)
(* order of the indices.                                                    *)

\* the honest key generation with parameters p and seed s, by the operations
\* above: every participant's signing key and the group key
honest_dkg(p, s) ==
    LET made(i) == new_dealer(p, i, participant_rng(s, i))
        all == [k \in 1 .. p.n |-> made(k).participant]
        r1(i) == new_state_internal(p, made(i).dh_private_key, i,
                     made(i).coefficients, all, TRUE, TRUE)
        RECURSIVE To(_, _)
        To(i, j) ==
            IF j > p.n THEN <<>>
            ELSE SelectSeq(r1(j).state.their_encrypted_secret_shares.val,
                           LAMBDA e : e.receiver_index = i) \o To(i, j + 1)
        fin(i) == finish(to_round_two(r1(i).state, p, To(i, 1)).state)
    IN  [keys |-> [i \in 1 .. p.n |-> fin(i).signing_key],
         group_key |-> fin(1).group_key]

\* the generators of a resharing dealer and of a new signer
reshare_rng(s, index) == (s * 16 + index * 7 + 8) % 64
signer_rng(s, index) == (s * 16 + index * 11 + 40) % 64

\* the old participants that have reshared
HaveReshared == {j \in old.resharing : reshares[j].some}

\* new_signer(params, i, rng): new signer i broadcasts its Participant
NewSigner(i) ==
    /\ i \in Indices
    /\ ~broadcast[i].some
    /\ \A k \in 1 .. (i - 1) : broadcast[k].some
    /\ LET made == new_signer(params, i, signer_rng(run_seed, i))
       IN  /\ broadcast' = [broadcast EXCEPT ![i] = Some(made.participant)]
           /\ secrets' = [secrets EXCEPT ![i] =
                  [coefficients |-> made.coefficients,
                   dh_private_key |-> made.dh_private_key]]
    /\ UNCHANGED <<params, run_seed, faults, round_one, net, round_two, finished, sig>>
    /\ UNCHANGED <<lagVars, shVars, reVars>>
    /\ UNCHANGED fnVars

\* new signer i broadcasts a proof of its Diffie-Hellman key that does not
\* verify
TamperSigner(i) ==
    /\ i \in Indices
    /\ broadcast[i].some
    /\ HaveReshared = {}
    /\ Cardinality(faults) < MaxFaults
    /\ ~\E f \in faults : f.dealer = i
    /\ broadcast' = [broadcast EXCEPT ![i] =
           Some([@.val EXCEPT !.proof_of_dh_private_key = spoilt(@)])]
    /\ faults' = faults \cup {[kind |-> "signer_proof", dealer |-> i, receiver |-> 0]}
    /\ UNCHANGED <<params, run_seed, secrets, round_one, net, round_two, finished, sig>>
    /\ UNCHANGED <<lagVars, shVars, reVars>>
    /\ UNCHANGED fnVars

\* reshare(params, old signing key of j, new signers, rng)
Reshare(j) ==
    /\ j \in old.resharing
    /\ \A i \in Indices : broadcast[i].some
    /\ ~reshares[j].some
    /\ \A k \in old.resharing : k < j => reshares[k].some
    /\ LET r == reshare(params, old.keys[j],
                    [k \in 1 .. params.n |-> broadcast[k].val],
                    reshare_rng(run_seed, j))
       IN  /\ reshares' = [reshares EXCEPT ![j] = Some(r)]
           /\ net' = [net EXCEPT ![j] = r.encrypted_shares]
    /\ UNCHANGED old
    /\ UNCHANGED <<params, run_seed, broadcast, secrets, faults, round_one, round_two, finished, sig>>
    /\ UNCHANGED <<lagVars, shVars>>
    /\ UNCHANGED fnVars

\* resharing dealer j broadcasts a proof that does not verify
TamperDealer(j, kind) ==
    /\ j \in HaveReshared
    /\ HaveReshared = old.resharing
    /\ \A i \in Indices : ~round_one[i].some
    /\ Cardinality(faults) < MaxFaults
    /\ kind \in {"dh_proof", "sk_proof"}
    /\ ~\E f \in faults : f.dealer = j /\ f.kind = kind
    /\ reshares' = [reshares EXCEPT ![j] = Some([@.val EXCEPT !.dealer =
           IF kind = "dh_proof"
           THEN [@ EXCEPT !.proof_of_dh_private_key = spoilt(@)]
           ELSE [@ EXCEPT !.proof_of_secret_key = Some(spoilt(@.val))]])]
    /\ faults' = faults \cup {[kind |-> kind, dealer |-> j, receiver |-> 0]}
    /\ UNCHANGED old
    /\ UNCHANGED <<params, run_seed, broadcast, secrets, round_one, net, round_two, finished, sig>>
    /\ UNCHANGED <<lagVars, shVars>>
    /\ UNCHANGED fnVars

\* new_state_internal of new signer i on the broadcasts of the dealers
SignerRoundOne(i) ==
    /\ i \in Indices
    /\ HaveReshared = old.resharing
    /\ ~round_one[i].some
    /\ \A k \in 1 .. (i - 1) : k \in Settled
    /\ LET order == Ascending(old.resharing)
       IN  round_one' = [round_one EXCEPT ![i] = Some(
               new_state_internal(params, secrets[i].dh_private_key, i,
                   secrets[i].coefficients,
                   [k \in 1 .. Len(order) |-> reshares[order[k]].val.dealer],
                   FALSE, TRUE))]
    /\ UNCHANGED <<params, run_seed, broadcast, secrets, faults, net, round_two, finished, sig>>
    /\ UNCHANGED <<lagVars, shVars, reVars>>
    /\ UNCHANGED fnVars

\* to_round_two of new signer i on the shares the dealers addressed to it
SignerRoundTwo(i) ==
    /\ i \in Indices
    /\ round_one[i].some
    /\ round_one[i].val.ok
    /\ ~round_two[i].some
    /\ round_two' = [round_two EXCEPT ![i] =
           Some(to_round_two(round_one[i].val.state, params, inbound(i)))]
    /\ UNCHANGED <<params, run_seed, broadcast, secrets, faults, round_one, net, finished, sig>>
    /\ UNCHANGED <<lagVars, shVars, reVars>>
    /\ UNCHANGED fnVars

\* finish of new signer i
SignerFinish(i) ==
    /\ i \in Indices
    /\ round_two[i].some
    /\ round_two[i].val.ok
    /\ ~finished[i].some
    /\ finished' = [finished EXCEPT ![i] = Some(finish(round_two[i].val.state))]
    /\ UNCHANGED <<params, run_seed, broadcast, secrets, faults, round_one, net, round_two, sig>>
    /\ UNCHANGED <<lagVars, shVars, reVars>>
    /\ UNCHANGED fnVars

ReshareNext ==
    \/ \E i \in 1 .. MaxNewN : NewSigner(i)
    \/ \E i \in 1 .. MaxNewN : TamperSigner(i)
    \/ \E j \in 1 .. MaxN : Reshare(j)
    \/ \E j \in 1 .. MaxN, kind \in {"dh_proof", "sk_proof"} : TamperDealer(j, kind)
    \/ \E i \in 1 .. MaxNewN : SignerRoundOne(i)
    \/ \E i \in 1 .. MaxNewN : SignerRoundTwo(i)
    \/ \E i \in 1 .. MaxNewN : SignerFinish(i)

----------------------------------------------------------------------------
(* SpecVerify: calls of IndividualVerifyingKey::verify on the commitments of *)
(* dealers given in any order, repetitions included                          *)

NoKey == [index |-> 0, share |-> GZero]

\* the commitment dealer j broadcasts in a run with this run's seed and t
commitment_of(j) ==
    new_dealer([n |-> MaxIndex, t |-> params.t], j,
               participant_rng(run_seed, j)).participant.commitments.val

\* the caller appends the commitment of dealer j to the slice
VkPush(j) ==
    /\ vk_pc = "build"
    /\ Len(vk_commitments) < MaxDealers
    /\ vk_commitments' = Append(vk_commitments, commitment_of(j))
    /\ UNCHANGED <<vk_pc, vk_key, vk_res>>
    /\ UNCHANGED <<lagVars, shVars, dkgVars, reVars>>
    /\ UNCHANGED <<ptVars, byVars>>

\* IndividualVerifyingKey {index, share}.verify(commitments)
VkVerify(index, share) ==
    /\ vk_pc = "build"
    /\ vk_key' = [index |-> index, share |-> share]
    /\ vk_res' = IndividualVerifyingKey_verify([index |-> index, share |-> share],
                                               vk_commitments)
    /\ vk_pc' = "called"
    /\ UNCHANGED vk_commitments
    /\ UNCHANGED <<lagVars, shVars, dkgVars, reVars>>
    /\ UNCHANGED <<ptVars, byVars>>

VkNext ==
    \/ \E j \in 1 .. MaxIndex : VkPush(j)
    \/ \E index \in 1 .. MaxIndex, share \in Points : VkVerify(index, share)

----------------------------------------------------------------------------
(* SpecParticipant: calls of the constructors new_dealer, new_signer and *)
(* reshare                                                               *)

NoCall == [op |-> "none", index |-> 0, key |-> ZERO]
NoParticipant == [participant |-> new_signer([n |-> 1, t |-> 1], 0, 0).participant, coefficients |-> None]

\* Participant::new_dealer(params, index, rng)
PtNewDealer(index) ==
    /\ LET made == new_dealer(params, index, participant_rng(run_seed, index))
       IN  pt_made' = [participant |-> made.participant,
                       coefficients |-> made.coefficients]
    /\ pt_call' = [op |-> "new_dealer", index |-> index, key |-> ZERO]
    /\ pt_pc' = "made"
    /\ UNCHANGED <<lagVars, shVars, dkgVars, reVars, keyVars, byVars>>

\* Participant::new_signer(params, index, rng)
PtNewSigner(index) ==
    /\ LET made == new_signer(params, index, signer_rng(run_seed, index))
       IN  pt_made' = [participant |-> made.participant,
                       coefficients |-> made.coefficients]
    /\ pt_call' = [op |-> "new_signer", index |-> index, key |-> ZERO]
    /\ pt_pc' = "made"
    /\ UNCHANGED <<lagVars, shVars, dkgVars, reVars, keyVars, byVars>>

\* Participant::reshare(params, IndividualSigningKey {index, key}, signers,
\* rng), the signers being those new_signer makes for the indices 1..n; the
\* Coefficients are the ones it unwraps at line 250
PtReshare(index, key) ==
    /\ LET secret_key == [index |-> index, key |-> key]
           signers == [k \in 1 .. params.n |->
                          new_signer(params, k, signer_rng(run_seed, k)).participant]
           r == reshare(params, secret_key, signers, reshare_rng(run_seed, index))
       IN  /\ r.ok
           /\ pt_made' = [participant |-> r.dealer,
                          coefficients |->
                              reshare_dealer(params, secret_key,
                                  reshare_rng(run_seed, index)).coefficients]
    /\ pt_call' = [op |-> "reshare", index |-> index, key |-> key]
    /\ pt_pc' = "made"
    /\ UNCHANGED <<lagVars, shVars, dkgVars, reVars, keyVars, byVars>>

PtNext ==
    \/ \E index \in 1 .. MaxN : PtNewDealer(index)
    \/ \E index \in 1 .. MaxN : PtNewSigner(index)
    \/ \E index \in 1 .. MaxN, key \in Scalars : PtReshare(index, key)

----------------------------------------------------------------------------
(* SpecShares: the precomputed nonce lists of one signer *)

NoPublicList == [participant_index |-> 0, commitments |-> <<>>]
NoShare == CommitmentShare_from(<<ZERO, ZERO>>)

\* generate_commitment_share_lists(rng, index, n)
ShGenerate(seed, index, n) ==
    /\ sh_pc = "new"
    /\ LET lists == generate_commitment_share_lists(seed, index, n)
       IN  /\ sh_pub' = lists.pub
           /\ sh_list' = lists.sec.commitments
    /\ sh_pc' = "generated"
    /\ UNCHANGED <<sh_arg, sh_before, sh_released>>
    /\ UNCHANGED <<lagVars, dkgVars, reVars>>
    /\ UNCHANGED fnVars

\* the owner pushes a clone of one of its shares onto the public field
\* `commitments` of its secret list
ShPushClone(k) ==
    /\ sh_pc = "generated"
    /\ k \in DOMAIN sh_list
    /\ Len(sh_list) < MaxShares
    /\ sh_list' = Append(sh_list, sh_list[k])
    /\ UNCHANGED <<sh_pc, sh_pub, sh_arg, sh_before, sh_released>>
    /\ UNCHANGED <<lagVars, dkgVars, reVars>>
    /\ UNCHANGED fnVars

\* drop_share(share)
ShDrop(share) ==
    /\ sh_pc \in {"generated", "dropped"}
    /\ LET r == drop_share(sh_list, share)
       IN  /\ sh_list' = r.commitments
           /\ sh_released' = r.released
    /\ sh_before' = sh_list
    /\ sh_arg' = share
    /\ sh_pc' = "dropped"
    /\ UNCHANGED sh_pub
    /\ UNCHANGED <<lagVars, dkgVars, reVars>>
    /\ UNCHANGED fnVars

\* the shares a caller can hand to drop_share: a clone of a share of the list,
\* or a share of another generation
ShArgs ==
    Range(sh_list) \cup
    {CommitmentShare_from(NoncePair_new(seed).pair) : seed \in 0 .. MaxSeed}

ShNext ==
    \/ \E seed \in 0 .. MaxSeed, index \in 1 .. MaxIndex, n \in 0 .. MaxShares :
           ShGenerate(seed, index, n)
    \/ \E k \in 1 .. MaxShares : ShPushClone(k)
    \/ \E share \in ShArgs : ShDrop(share)

----------------------------------------------------------------------------
(* SpecLagrange: calculate_lagrange_coefficients applied to bounded inputs *)

NoResult == [ok |-> FALSE, val |-> 0, err |-> "not called"]

\* the caller pushes one more index onto the slice
LagPush(j) ==
    /\ lag_pc = "build"
    /\ Len(lag_I) < MaxLen
    /\ lag_I' = Append(lag_I, j)
    /\ UNCHANGED <<lag_pc, lag_i, lag_res, lag_p, lag_sum>>
    /\ UNCHANGED <<shVars, dkgVars, reVars>>
    /\ UNCHANGED fnVars

\* calculate_lagrange_coefficients(i, lag_I)
LagCall(i) ==
    /\ lag_pc = "build"
    /\ lag_pc' = "called"
    /\ lag_i' = i
    /\ lag_res' = calculate_lagrange_coefficients(i, lag_I)
    /\ UNCHANGED <<lag_I, lag_p, lag_sum>>
    /\ UNCHANGED <<shVars, dkgVars, reVars>>
    /\ UNCHANGED fnVars

\* the coefficients of every index of the slice, weighted by the evaluations
\* of a polynomial p of degree at most |I| - 1
LagInterpolate(p) ==
    /\ lag_pc = "build"
    /\ lag_I # <<>>
    /\ lag_pc' = "interpolated"
    /\ lag_p' = p
    /\ lag_sum' = interpolation_sum(lag_I, lag_I, p)
    /\ UNCHANGED <<lag_I, lag_i, lag_res>>
    /\ UNCHANGED <<shVars, dkgVars, reVars>>
    /\ UNCHANGED fnVars

LagNext ==
    \/ \E j \in 0 .. MaxIndex : LagPush(j)
    \/ \E i \in 0 .. MaxIndex : LagCall(i)
    \/ \E p \in [1 .. Len(lag_I) -> 0 .. MaxCoef] : LagInterpolate(p)

----------------------------------------------------------------------------
(* to_bytes and from_bytes: a value of a wire type is written, the bytes are *)
(* possibly damaged on the way, and from_bytes is called on what arrives.    *)

MaxGarbage == 4

\* the values of a wire type that are written
WireValues(type) ==
    CASE type = "Participant" ->
             {new_dealer([n |-> MaxN, t |-> t], i, participant_rng(seed, i)).participant :
                  t \in 1 .. MaxN, i \in 1 .. MaxN, seed \in 0 .. MaxSeed}
             \cup {new_signer([n |-> MaxN, t |-> 1], i, signer_rng(seed, i)).participant :
                  i \in 1 .. MaxN, seed \in 0 .. MaxSeed}
      [] type = "DiffieHellmanPrivateKey" -> Scalars
      [] type = "DiffieHellmanPublicKey" -> Points
      [] type = "IndividualVerifyingKey" ->
             {[index |-> i, share |-> P] : i \in 1 .. MaxIndex, P \in Points}
      [] type = "IndividualSigningKey" ->
             {[index |-> i, key |-> x] : i \in 1 .. MaxIndex, x \in Scalars}
      [] type = "GroupKey" -> Points
      [] type = "Commitment" ->
             {[secret |-> x, commit |-> PMul(generator, x)] : x \in Scalars}
      [] type = "CommitmentShare" ->
             {CommitmentShare_from(<<d, e>>) : d \in Scalars, e \in Scalars}
      [] type = "SecretCommitmentShareList" ->
             {generate_commitment_share_lists(seed, 1, n).sec :
                  seed \in 0 .. MaxSeed, n \in 0 .. MaxShares}
      [] type = "PublicCommitmentShareList" ->
             {generate_commitment_share_lists(seed, i, n).pub :
                  seed \in 0 .. MaxSeed, i \in 1 .. MaxIndex, n \in 0 .. MaxShares}

\* x.to_bytes(), the bytes sent as they are
ByToBytes(type, x) ==
    /\ by_pc = "idle"
    /\ to_bytes(type, x).ok
    /\ by_pc' = "encoded"
    /\ by_type' = type
    /\ by_value' = x
    /\ by_bytes' = to_bytes(type, x).val
    /\ by_tamper' = "none"
    /\ by_back' = NoResult
    /\ UNCHANGED <<lagVars, shVars, dkgVars, reVars, keyVars, ptVars>>

\* the input is too short: only the first k bytes arrive
ByTruncate(k) ==
    /\ by_pc = "encoded" /\ by_tamper = "none"
    /\ k < Len(by_bytes)
    /\ by_bytes' = SubSeq(by_bytes, 1, k)
    /\ by_tamper' = "short"
    /\ UNCHANGED <<by_pc, by_type, by_value, by_back>>
    /\ UNCHANGED <<lagVars, shVars, dkgVars, reVars, keyVars, ptVars>>

\* a byte follows the valid encoding
ByAppend(b) ==
    /\ by_pc = "encoded" /\ by_tamper = "none"
    /\ by_bytes' = Append(by_bytes, b)
    /\ by_tamper' = "trailing"
    /\ UNCHANGED <<by_pc, by_type, by_value, by_back>>
    /\ UNCHANGED <<lagVars, shVars, dkgVars, reVars, keyVars, ptVars>>

\* the field at position k, a scalar, a point or a tag, is overwritten with
\* the byte that is no canonical scalar, no point of the group and no tag
BySpoil(k) ==
    /\ by_pc = "encoded" /\ by_tamper = "none"
    /\ k \in 1 .. Len(by_bytes)
    /\ layout(by_type, by_value)[k].kind \in {"scalar", "point", "tag"}
    /\ by_bytes' = [by_bytes EXCEPT ![k] = ByteFF]
    /\ by_tamper' = "invalid"
    /\ UNCHANGED <<by_pc, by_type, by_value, by_back>>
    /\ UNCHANGED <<lagVars, shVars, dkgVars, reVars, keyVars, ptVars>>

\* n fields of 0xFF bytes are handed to from_bytes of the type
ByGarbage(type, n) ==
    /\ by_pc = "idle"
    /\ by_pc' = "encoded"
    /\ by_type' = type
    /\ by_value' = None
    /\ by_bytes' = [k \in 1 .. n |-> ByteFF]
    /\ by_tamper' = "garbage"
    /\ by_back' = NoResult
    /\ UNCHANGED <<lagVars, shVars, dkgVars, reVars, keyVars, ptVars>>

\* T::from_bytes(bytes)
ByFromBytes ==
    /\ by_pc = "encoded"
    /\ by_pc' = "decoded"
    /\ by_back' = from_bytes(by_type, by_bytes)
    /\ UNCHANGED <<by_type, by_value, by_bytes, by_tamper>>
    /\ UNCHANGED <<lagVars, shVars, dkgVars, reVars, keyVars, ptVars>>

ByNext ==
    \/ \E type \in WireTypes : \E x \in WireValues(type) : ByToBytes(type, x)
    \/ \E k \in 0 .. Len(by_bytes) : ByTruncate(k)
    \/ \E b \in 0 .. ByteFF : ByAppend(b)
    \/ \E k \in 1 .. Len(by_bytes) : BySpoil(k)
    \/ \E type \in WireTypes : \E n \in 1 .. MaxGarbage : ByGarbage(type, n)
    \/ ByFromBytes

----------------------------------------------------------------------------
(* The specifications *)

\* no resharing
NoOld == [params |-> [n |-> 0, t |-> 0], keys |-> <<>>, group_key |-> GZero, resharing |-> {}]

\* the widest index range of a run
MaxWidth == IF MaxN > MaxNewN THEN MaxN ELSE MaxNewN

\* a key generation with any parameters 1 <= t <= n <= MaxN and any seed; no
\* participant is constructed yet
Init ==
    /\ \E n \in 1 .. MaxN : \E t \in 1 .. n : params = [n |-> n, t |-> t]
    /\ run_seed \in 0 .. MaxSeed
    /\ broadcast = [i \in 1 .. MaxN |-> None]
    /\ secrets = [i \in 1 .. MaxN |-> [coefficients |-> None, dh_private_key |-> ZERO]]
    /\ faults = {}
    /\ round_one = [i \in 1 .. MaxN |-> None]
    /\ net = [i \in 1 .. MaxN |-> <<>>]
    /\ round_two = [i \in 1 .. MaxN |-> None]
    /\ finished = [i \in 1 .. MaxN |-> None]
    /\ sig = None
    /\ old = NoOld
    /\ reshares = [j \in 1 .. MaxN |-> None]
    /\ vk_pc = "build" /\ vk_commitments = <<>> /\ vk_key = NoKey /\ vk_res = NoResult
    /\ pt_pc = "idle" /\ pt_call = NoCall /\ pt_made = NoParticipant
    /\ by_pc = "idle" /\ by_type = "none" /\ by_value = None
    /\ by_bytes = <<>> /\ by_tamper = "none" /\ by_back = NoResult
    /\ lag_pc = "build" /\ lag_I = <<>> /\ lag_i = 0 /\ lag_res = NoResult
    /\ lag_p = <<>> /\ lag_sum = 0
    /\ sh_pc = "new" /\ sh_pub = NoPublicList /\ sh_list = <<>>
    /\ sh_arg = NoShare /\ sh_before = <<>> /\ sh_released = <<>>

Spec == Init /\ [][Next]_vars

\* the inputs of calculate_lagrange_coefficients are built from the empty slice
InitLagrange ==
    /\ lag_pc = "build" /\ lag_I = <<>> /\ lag_i = 0 /\ lag_res = NoResult
    /\ lag_p = <<>> /\ lag_sum = 0
    /\ sh_pc = "new" /\ sh_pub = NoPublicList /\ sh_list = <<>>
    /\ sh_arg = NoShare /\ sh_before = <<>> /\ sh_released = <<>>
    /\ params = [n |-> 1, t |-> 1]
    /\ run_seed = 0
    /\ broadcast = [i \in 1 .. MaxN |-> None]
    /\ secrets = [i \in 1 .. MaxN |-> [coefficients |-> None, dh_private_key |-> ZERO]]
    /\ faults = {}
    /\ round_one = [i \in 1 .. MaxN |-> None]
    /\ net = [i \in 1 .. MaxN |-> <<>>]
    /\ round_two = [i \in 1 .. MaxN |-> None]
    /\ finished = [i \in 1 .. MaxN |-> None]
    /\ sig = None
    /\ old = NoOld
    /\ reshares = [j \in 1 .. MaxN |-> None]
    /\ vk_pc = "build" /\ vk_commitments = <<>> /\ vk_key = NoKey /\ vk_res = NoResult
    /\ pt_pc = "idle" /\ pt_call = NoCall /\ pt_made = NoParticipant
    /\ by_pc = "idle" /\ by_type = "none" /\ by_value = None
    /\ by_bytes = <<>> /\ by_tamper = "none" /\ by_back = NoResult

SpecLagrange == InitLagrange /\ [][LagNext]_vars

\* an honest key generation with any parameters and seed has finished; any
\* nonempty set of its participants is to reshare to new signers with any
\* parameters 1 <= t' <= n' <= MaxNewN, none of them constructed yet
InitReshare ==
    /\ run_seed \in 0 .. MaxSeed
    /\ \E n \in 1 .. MaxN : \E t \in 1 .. n : \E D \in SUBSET (1 .. n) :
           /\ D # {}
           /\ old = [params |-> [n |-> n, t |-> t],
                     keys |-> honest_dkg([n |-> n, t |-> t], run_seed).keys,
                     group_key |-> honest_dkg([n |-> n, t |-> t], run_seed).group_key,
                     resharing |-> D]
    /\ \E n \in 1 .. MaxNewN : \E t \in 1 .. n : params = [n |-> n, t |-> t]
    /\ reshares = [j \in 1 .. MaxN |-> None]
    /\ vk_pc = "build" /\ vk_commitments = <<>> /\ vk_key = NoKey /\ vk_res = NoResult
    /\ pt_pc = "idle" /\ pt_call = NoCall /\ pt_made = NoParticipant
    /\ by_pc = "idle" /\ by_type = "none" /\ by_value = None
    /\ by_bytes = <<>> /\ by_tamper = "none" /\ by_back = NoResult
    /\ broadcast = [i \in 1 .. MaxWidth |-> None]
    /\ secrets = [i \in 1 .. MaxWidth |-> [coefficients |-> None, dh_private_key |-> ZERO]]
    /\ faults = {}
    /\ round_one = [i \in 1 .. MaxWidth |-> None]
    /\ net = [i \in 1 .. MaxN |-> <<>>]
    /\ round_two = [i \in 1 .. MaxWidth |-> None]
    /\ finished = [i \in 1 .. MaxWidth |-> None]
    /\ sig = None
    /\ lag_pc = "build" /\ lag_I = <<>> /\ lag_i = 0 /\ lag_res = NoResult
    /\ lag_p = <<>> /\ lag_sum = 0
    /\ sh_pc = "new" /\ sh_pub = NoPublicList /\ sh_list = <<>>
    /\ sh_arg = NoShare /\ sh_before = <<>> /\ sh_released = <<>>

SpecReshare == InitReshare /\ [][ReshareNext]_vars

\* a signer that has generated no commitment shares yet
InitShares ==
    /\ sh_pc = "new" /\ sh_pub = NoPublicList /\ sh_list = <<>>
    /\ sh_arg = NoShare /\ sh_before = <<>> /\ sh_released = <<>>
    /\ lag_pc = "build" /\ lag_I = <<>> /\ lag_i = 0 /\ lag_res = NoResult
    /\ lag_p = <<>> /\ lag_sum = 0
    /\ params = [n |-> 1, t |-> 1]
    /\ run_seed = 0
    /\ broadcast = [i \in 1 .. MaxN |-> None]
    /\ secrets = [i \in 1 .. MaxN |-> [coefficients |-> None, dh_private_key |-> ZERO]]
    /\ faults = {}
    /\ round_one = [i \in 1 .. MaxN |-> None]
    /\ net = [i \in 1 .. MaxN |-> <<>>]
    /\ round_two = [i \in 1 .. MaxN |-> None]
    /\ finished = [i \in 1 .. MaxN |-> None]
    /\ sig = None
    /\ old = NoOld
    /\ reshares = [j \in 1 .. MaxN |-> None]
    /\ vk_pc = "build" /\ vk_commitments = <<>> /\ vk_key = NoKey /\ vk_res = NoResult
    /\ pt_pc = "idle" /\ pt_call = NoCall /\ pt_made = NoParticipant
    /\ by_pc = "idle" /\ by_type = "none" /\ by_value = None
    /\ by_bytes = <<>> /\ by_tamper = "none" /\ by_back = NoResult

SpecShares == InitShares /\ [][ShNext]_vars

\* before a call of verify: any seed and any number t of points per commitment
InitVerify ==
    /\ vk_pc = "build" /\ vk_commitments = <<>> /\ vk_key = NoKey /\ vk_res = NoResult
    /\ pt_pc = "idle" /\ pt_call = NoCall /\ pt_made = NoParticipant
    /\ by_pc = "idle" /\ by_type = "none" /\ by_value = None
    /\ by_bytes = <<>> /\ by_tamper = "none" /\ by_back = NoResult
    /\ run_seed \in 0 .. MaxSeed
    /\ \E t \in 1 .. MaxN : params = [n |-> MaxIndex, t |-> t]
    /\ sh_pc = "new" /\ sh_pub = NoPublicList /\ sh_list = <<>>
    /\ sh_arg = NoShare /\ sh_before = <<>> /\ sh_released = <<>>
    /\ lag_pc = "build" /\ lag_I = <<>> /\ lag_i = 0 /\ lag_res = NoResult
    /\ lag_p = <<>> /\ lag_sum = 0
    /\ broadcast = [i \in 1 .. MaxN |-> None]
    /\ secrets = [i \in 1 .. MaxN |-> [coefficients |-> None, dh_private_key |-> ZERO]]
    /\ faults = {}
    /\ round_one = [i \in 1 .. MaxN |-> None]
    /\ net = [i \in 1 .. MaxN |-> <<>>]
    /\ round_two = [i \in 1 .. MaxN |-> None]
    /\ finished = [i \in 1 .. MaxN |-> None]
    /\ sig = None
    /\ old = NoOld
    /\ reshares = [j \in 1 .. MaxN |-> None]

SpecVerify == InitVerify /\ [][VkNext]_vars

\* before a constructor call: any parameters 1 <= t <= n <= MaxN and any seed
InitParticipant ==
    /\ pt_pc = "idle" /\ pt_call = NoCall /\ pt_made = NoParticipant
    /\ by_pc = "idle" /\ by_type = "none" /\ by_value = None
    /\ by_bytes = <<>> /\ by_tamper = "none" /\ by_back = NoResult
    /\ run_seed \in 0 .. MaxSeed
    /\ \E n \in 1 .. MaxN : \E t \in 1 .. n : params = [n |-> n, t |-> t]
    /\ vk_pc = "build" /\ vk_commitments = <<>> /\ vk_key = NoKey /\ vk_res = NoResult
    /\ sh_pc = "new" /\ sh_pub = NoPublicList /\ sh_list = <<>>
    /\ sh_arg = NoShare /\ sh_before = <<>> /\ sh_released = <<>>
    /\ lag_pc = "build" /\ lag_I = <<>> /\ lag_i = 0 /\ lag_res = NoResult
    /\ lag_p = <<>> /\ lag_sum = 0
    /\ broadcast = [i \in 1 .. MaxN |-> None]
    /\ secrets = [i \in 1 .. MaxN |-> [coefficients |-> None, dh_private_key |-> ZERO]]
    /\ faults = {}
    /\ round_one = [i \in 1 .. MaxN |-> None]
    /\ net = [i \in 1 .. MaxN |-> <<>>]
    /\ round_two = [i \in 1 .. MaxN |-> None]
    /\ finished = [i \in 1 .. MaxN |-> None]
    /\ sig = None
    /\ old = NoOld
    /\ reshares = [j \in 1 .. MaxN |-> None]

SpecParticipant == InitParticipant /\ [][PtNext]_vars

\* before a to_bytes or a from_bytes
InitBytes ==
    /\ by_pc = "idle" /\ by_type = "none" /\ by_value = None
    /\ by_bytes = <<>> /\ by_tamper = "none" /\ by_back = NoResult
    /\ pt_pc = "idle" /\ pt_call = NoCall /\ pt_made = NoParticipant
    /\ vk_pc = "build" /\ vk_commitments = <<>> /\ vk_key = NoKey /\ vk_res = NoResult
    /\ run_seed = 0
    /\ params = [n |-> MaxN, t |-> 1]
    /\ sh_pc = "new" /\ sh_pub = NoPublicList /\ sh_list = <<>>
    /\ sh_arg = NoShare /\ sh_before = <<>> /\ sh_released = <<>>
    /\ lag_pc = "build" /\ lag_I = <<>> /\ lag_i = 0 /\ lag_res = NoResult
    /\ lag_p = <<>> /\ lag_sum = 0
    /\ broadcast = [i \in 1 .. MaxN |-> None]
    /\ secrets = [i \in 1 .. MaxN |-> [coefficients |-> None, dh_private_key |-> ZERO]]
    /\ faults = {}
    /\ round_one = [i \in 1 .. MaxN |-> None]
    /\ net = [i \in 1 .. MaxN |-> <<>>]
    /\ round_two = [i \in 1 .. MaxN |-> None]
    /\ finished = [i \in 1 .. MaxN |-> None]
    /\ sig = None
    /\ old = NoOld
    /\ reshares = [j \in 1 .. MaxN |-> None]

SpecBytes == InitBytes /\ [][ByNext]_vars

----------------------------------------------------------------------------
(* Claims on calculate_lagrange_coefficients *)

\* C8: calculate_lagrange_coefficients(i, I) fails with DuplicateShares when i
\* occurs more than once in I and when I is empty, and returns a coefficient
\* only otherwise.
C8_DuplicateOrEmptyFails ==
    lag_pc = "called" =>
        LET bad == Count(lag_i, lag_I) > 1 \/ lag_I = <<>>
        IN  /\ bad => (~lag_res.ok /\ lag_res.err = "DuplicateShares")
            /\ ~bad => lag_res.ok

\* the product over j in S, j # i, of j / (j - i), one division per factor
RECURSIVE LagrangeProduct(_, _)
LagrangeProduct(i, S) ==
    IF S \subseteq {i} THEN ONE
    ELSE LET j == CHOOSE x \in S : x # i
         IN  FMul(FMul(FromU32(j), inverse(FSub(FromU32(j), FromU32(i))).val),
                  LagrangeProduct(i, S \ {j}))

C9_Case ==
    /\ lag_pc = "called"
    /\ IsDistinct(lag_I)
    /\ 0 \notin Range(lag_I)
    /\ lag_i \in Range(lag_I)

\* C9: for a list I of distinct nonzero indices and i in I the call returns
\* the product over j in I, j # i, of j / (j - i), whatever the order of I.
C9_LagrangeValue ==
    C9_Case =>
        /\ lag_res = Ok(LagrangeProduct(lag_i, Range(lag_I)))
        /\ calculate_lagrange_coefficients(lag_i, Reverse(lag_I)) = lag_res

C9_Witness == C9_Case /\ Len(lag_I) = 3 /\ lag_i = lag_I[2] /\ lag_I[1] > lag_I[3]

C10_Case ==
    /\ lag_pc = "interpolated"
    /\ IsDistinct(lag_I)

\* C10 as stated: the weighted sum equals p(i) for every i in I.
C10_SumIsEvaluationAtIndex ==
    C10_Case => \A i \in Range(lag_I) : lag_sum = PolyEval(lag_p, FromU32(i))

\* C10 as amended: for distinct indices I and a polynomial p of degree at most
\* |I| - 1 the weighted sum equals p(0), the constant term of p.
C10_SumIsEvaluationAtZero ==
    C10_Case => lag_sum = PolyEval(lag_p, ZERO)

C10_Witness ==
    /\ C10_Case
    /\ Len(lag_I) = 3
    /\ lag_p[3] # 0
    /\ lag_p[1] # 0
    /\ 0 \notin Range(lag_I)

----------------------------------------------------------------------------
(* Claims on the precomputed nonce lists *)

\* the number of elements of v equal to share
Occurrences(v, share) ==
    Cardinality({k \in DOMAIN v : CommitmentShare_eq(v[k], share)})

\* C7 as stated: drop_share(c) shortens the list by exactly 1 if an element
\* equal to c was present and by 0 otherwise, and afterwards the list holds no
\* element equal to c, also when it held several.
C7_DropShareLeavesNoCopy ==
    sh_pc = "dropped" =>
        /\ Len(sh_list) =
               Len(sh_before) - (IF Occurrences(sh_before, sh_arg) > 0 THEN 1 ELSE 0)
        /\ Occurrences(sh_list, sh_arg) = 0

\* C7 as amended: drop_share(c) shortens the list by exactly 1 if an element
\* equal to c was present and by 0 otherwise; of k >= 1 elements equal to c
\* exactly k - 1 remain, so the list holds no element equal to c only when it
\* held at most one.
C7_DropShareRemovesOne ==
    sh_pc = "dropped" =>
        LET k == Occurrences(sh_before, sh_arg)
        IN  /\ Len(sh_list) = Len(sh_before) - (IF k > 0 THEN 1 ELSE 0)
            /\ Occurrences(sh_list, sh_arg) = (IF k > 0 THEN k - 1 ELSE 0)
            /\ k <= 1 => Occurrences(sh_list, sh_arg) = 0

C7_Witness ==
    /\ sh_pc = "dropped"
    /\ Occurrences(sh_before, sh_arg) = 2
    /\ Len(sh_list) = 2
    /\ Occurrences(sh_list, sh_arg) = 1

\* C17: every CommitmentShare destroyed by drop_share, the removed element
\* and the argument, is zeroized before it is released: both secrets are zero
\* and both points the identity; and after drop_share(c) of a share that
\* occurred once, no element of the list holds c's secrets d and e.
C17_DroppedSharesAreZeroized ==
    sh_pc = "dropped" =>
        /\ Len(sh_released) = (IF Occurrences(sh_before, sh_arg) > 0 THEN 2 ELSE 1)
        /\ \A k \in DOMAIN sh_released :
               /\ sh_released[k].hiding.secret = ZERO
               /\ sh_released[k].binding.secret = ZERO
               /\ sh_released[k].hiding.commit = GZero
               /\ sh_released[k].binding.commit = GZero
        /\ Occurrences(sh_before, sh_arg) = 1 =>
               \A k \in DOMAIN sh_list :
                   ~ /\ sh_list[k].hiding.secret = sh_arg.hiding.secret
                     /\ sh_list[k].binding.secret = sh_arg.binding.secret

C17_Witness ==
    /\ sh_pc = "dropped"
    /\ Occurrences(sh_before, sh_arg) = 1
    /\ Len(sh_before) = 3
    /\ Len(sh_list) = 2
    /\ sh_arg.hiding.secret # ZERO
    /\ sh_arg.binding.secret # ZERO
    /\ Len(sh_released) = 2
    /\ sh_released[1] = CommitmentShare_zeroize(sh_arg)
    /\ sh_released[2] = CommitmentShare_zeroize(sh_arg)

\* the positions of v, counted from 1, whose element equals share
Matches(v, share) == {k \in DOMAIN v : CommitmentShare_eq(v[k], share)}

\* C18: drop_share(c) on a list with no element equal to c leaves the list as
\* it was; on a list with one or more elements equal to c it removes exactly
\* one element, the one at the highest matching position, and every other
\* element keeps its value and its place relative to the others.
C18_DropShareFrame ==
    sh_pc = "dropped" =>
        LET M == Matches(sh_before, sh_arg)
        IN  /\ M = {} => sh_list = sh_before
            /\ M # {} =>
                   LET m == CHOOSE k \in M : \A j \in M : j <= k
                   IN  /\ Len(sh_list) = Len(sh_before) - 1
                       /\ \A k \in 1 .. (m - 1) : sh_list[k] = sh_before[k]
                       /\ \A k \in m .. (Len(sh_before) - 1) :
                              sh_list[k] = sh_before[k + 1]

C18_Witness ==
    /\ sh_pc = "dropped"
    /\ Matches(sh_before, sh_arg) = {1, 3}
    /\ ~CommitmentShare_eq(sh_before[2], sh_arg)
    /\ sh_list = <<sh_before[1], sh_before[2]>>

----------------------------------------------------------------------------
(* Claims on the key generation and on signing *)

\* the participants whose finish has returned Ok
Finalized == {i \in Indices : finished[i].some /\ finished[i].val.ok}

plain_sum(my_secret_shares) ==
    LET RECURSIVE Sum(_)
        Sum(k) == IF k > Len(my_secret_shares) THEN ZERO
                  ELSE FAdd(my_secret_shares[k].value, Sum(k + 1))
    IN  Sum(1)

\* the participants that have accepted at least t dealers
Accepting == {i \in Indices : round_two[i].some /\ round_two[i].val.ok}

accepted_dealers(i) ==
    {round_two[i].val.state.my_secret_shares[k].sender_index :
        k \in DOMAIN round_two[i].val.state.my_secret_shares}

\* C4: when a dealer sends one recipient a share that fails the Feldman check
\* and at least t dealers remain, every other participant classifies that
\* dealer as misbehaving, and all of them finalize with the same accepted
\* dealers and the same GroupKey.
C4_AllExcludeCheater ==
    \A f \in faults :
        (f.kind = "share" /\ params.n - 1 >= params.t) =>
            /\ \A p \in Accepting \ {f.dealer} :
                   f.dealer \notin accepted_dealers(p)
            /\ \A p, q \in Finalized \ {f.dealer} :
                   /\ accepted_dealers(p) = accepted_dealers(q)
                   /\ finished[p].val.group_key = finished[q].val.group_key

\* does the broadcast of j carry a proof that fails?
proof_fault(j) == \E f \in faults : f.dealer = j /\ f.receiver = 0

\* the dealers whose share participant i is to accept, from what has happened:
\* j and i pass each other's round-one checks (a participant does not check
\* itself) and the share j sent i is the one j computed
expected_dealers(i) ==
    {j \in Indices :
        /\ j = i \/ (~proof_fault(j) /\ ~proof_fault(i))
        /\ ~\E f \in faults : f.dealer = j /\ f.receiver = i}

----------------------------------------------------------------------------
(* resharing *)

\* the key generation that is reshared is one the key generation machine
\* produces: in a run without misbehaviour every participant finishes with the
\* key and group key of honest_dkg
HonestRunIsHonestDkg ==
    faults = {} =>
        \A i \in Indices :
            finished[i].some =>
                /\ finished[i].val.ok
                /\ finished[i].val.signing_key = honest_dkg(params, run_seed).keys[i]
                /\ finished[i].val.group_key = honest_dkg(params, run_seed).group_key

\* the old participants whose share new signer i has accepted
accepted_resharers(i) ==
    {round_two[i].val.state.my_secret_shares[k].sender_index :
        k \in DOMAIN round_two[i].val.state.my_secret_shares}

bad_signer(i) == \E f \in faults : f.kind = "signer_proof" /\ f.dealer = i
bad_resharer(j) == \E f \in faults : f.kind \in {"dh_proof", "sk_proof"} /\ f.dealer = j

\* C5: round one never fails on a proof that does not verify.  A reshare
\* returns without error; it puts every new signer in exactly one of the
\* honest and misbehaving lists, a signer other than itself in misbehaving
\* exactly when its proof fails; it makes exactly one EncryptedSecretShare for
\* every honest signer and none for a misbehaving one.  A new signer's round
\* one does the same to the resharing dealers and makes no shares.
C5_RoundOneClassifies ==
    /\ \A j \in HaveReshared :
           LET r == reshares[j].val
               to(k) == SelectSeq(r.encrypted_shares, LAMBDA e : e.receiver_index = k)
           IN  /\ r.ok
               /\ ~r.panic
               /\ \A e \in Range(r.encrypted_shares) : e.sender_index = j
               /\ \A k \in Indices :
                      /\ Count(k, r.participant_lists.honest)
                           + Count(k, r.participant_lists.misbehaving) = 1
                      /\ k # j =>
                             (k \in Range(r.participant_lists.misbehaving)
                                  <=> bad_signer(k))
                      /\ Len(to(k)) =
                             IF k \in Range(r.participant_lists.honest)
                             THEN 1 ELSE 0
    /\ \A i \in Indices :
           round_one[i].some =>
               LET r == round_one[i].val
               IN  /\ r.ok
                   /\ r.state.their_encrypted_secret_shares = None
                   /\ \A j \in old.resharing :
                          /\ Count(j, r.lists.honest)
                               + Count(j, r.lists.misbehaving) = 1
                          /\ j # i =>
                                 (j \in Range(r.lists.misbehaving)
                                      <=> bad_resharer(j))

C5_Witness ==
    /\ params.n = 3
    /\ reshares[1].some
    /\ reshares[1].val.ok
    /\ reshares[1].val.participant_lists.misbehaving = <<2>>
    /\ reshares[1].val.participant_lists.honest = <<1, 3>>
    /\ Len(reshares[1].val.encrypted_shares) = 2


----------------------------------------------------------------------------
(* Claims on the generation of the nonce lists *)

\* C11: every call generate_commitment_share_lists(rng, index, n) returns a
\* public and a secret list of exactly n entries each, n = 0 included; the
\* public list carries participant_index = index, and its pair at every
\* position k is (d_k * B, e_k * B) for the hiding and binding secrets d_k, e_k
\* at position k of the secret list.
C11_GeneratedLists ==
    [][\A seed \in 0 .. MaxSeed, index \in 1 .. MaxIndex, n \in 0 .. MaxShares :
           ShGenerate(seed, index, n) =>
               /\ Len(sh_pub'.commitments) = n
               /\ Len(sh_list') = n
               /\ sh_pub'.participant_index = index
               /\ \A k \in 1 .. n :
                      sh_pub'.commitments[k] =
                          <<PMul(generator, sh_list'[k].hiding.secret),
                            PMul(generator, sh_list'[k].binding.secret)>>]_vars

C11_Witness ==
    /\ sh_pc = "generated"
    /\ sh_pub.participant_index = 2
    /\ Len(sh_pub.commitments) = 3
    /\ Len(sh_list) = 3
    /\ sh_list[1].hiding.secret # sh_list[1].binding.secret
    /\ sh_pub.commitments[1] =
           <<PMul(generator, sh_list[1].hiding.secret),
             PMul(generator, sh_list[1].binding.secret)>>


----------------------------------------------------------------------------
(* Claims on IndividualVerifyingKey::verify *)

\* sum over the dealers j of the slice of lambda_j(J) * (sum over k of
\* index^k * phi_{j,k}), lambda taken over the dealer indices J of the slice
weighted_evaluation(index, commitments) ==
    LET J == [k \in 1 .. Len(commitments) |-> commitments[k].index]
        RECURSIVE Sum(_)
        Sum(k) ==
            IF k > Len(commitments) THEN GZero
            ELSE PAdd(PMul(feldman_rhs(commitments[k].points, index),
                           calculate_lagrange_coefficients(commitments[k].index, J).val),
                      Sum(k + 1))
    IN  Sum(1)

----------------------------------------------------------------------------
(* Claims on the constructors of Participant *)

\* C13: in every Participant returned by new_dealer, new_signer or reshare,
\* commitments is present exactly when proof_of_secret_key is; a dealer
\* (new_dealer, reshare) has both, and its proof_of_secret_key verifies for the
\* first point phi_0 of its commitment under its index; a signer (new_signer)
\* has neither, and public_key() returns None.
C13_CommitmentsIffProof ==
    pt_pc = "made" =>
        LET p == pt_made.participant
        IN  /\ p.commitments.some <=> p.proof_of_secret_key.some
            /\ pt_call.op \in {"new_dealer", "reshare"} =>
                   /\ p.commitments.some
                   /\ p.proof_of_secret_key.some
                   /\ public_key(p) = Some(p.commitments.val.points[1])
                   /\ NizkPokOfSecretKey_verify(p.proof_of_secret_key.val, p.index,
                                                p.commitments.val.points[1])
            /\ pt_call.op = "new_signer" =>
                   /\ ~p.commitments.some
                   /\ ~p.proof_of_secret_key.some
                   /\ public_key(p) = None

C13_Witness ==
    /\ pt_pc = "made"
    /\ pt_call.op = "reshare"
    /\ params.t = 2
    /\ pt_made.participant.commitments.some
    /\ pt_made.participant.commitments.val.points[1] # GZero
    /\ NizkPokOfSecretKey_verify(pt_made.participant.proof_of_secret_key.val,
                                 pt_made.participant.index,
                                 pt_made.participant.commitments.val.points[1])


\* the elements of s from position k on
Tail_from(s, k) == SubSeq(s, k, Len(s))

\* C16: for parameters with 1 <= t <= n, every dealer built by new_dealer or
\* reshare gets exactly t coefficients and a commitment of exactly t points,
\* with commitment.index equal to the participant index and points[j] =
\* coefficients[j] * B for every j; for reshare the constant coefficient is
\* the supplied signing share and the dealer index is that share's index, and
\* the other t - 1 coefficients are sampled: they are the same whatever the
\* share.
C16_DealerPolynomial ==
    (pt_pc = "made" /\ pt_call.op \in {"new_dealer", "reshare"}) =>
        LET p == pt_made.participant
            coefficients == pt_made.coefficients
        IN  /\ coefficients.some
            /\ Len(coefficients.val) = params.t
            /\ p.commitments.some
            /\ Len(p.commitments.val.points) = params.t
            /\ p.index = pt_call.index
            /\ p.commitments.val.index = p.index
            /\ \A j \in 1 .. params.t :
                   p.commitments.val.points[j] = PMul(generator, coefficients.val[j])
            /\ pt_call.op = "reshare" =>
                   /\ coefficients.val[1] = pt_call.key
                   /\ \A other \in Scalars :
                          Tail_from(reshare_dealer(params,
                                        [index |-> pt_call.index, key |-> other],
                                        reshare_rng(run_seed, pt_call.index))
                                        .coefficients.val, 2)
                              = Tail_from(coefficients.val, 2)

C16_Witness ==
    /\ pt_pc = "made"
    /\ pt_call.op = "reshare"
    /\ params.t = 3
    /\ pt_call.key = 5
    /\ pt_call.index = 2
    /\ Len(pt_made.coefficients.val) = 3
    /\ pt_made.coefficients.val[1] = 5
    /\ pt_made.participant.commitments.val.points[1] = PMul(generator, 5)
    /\ pt_made.participant.commitments.val.index = 2

----------------------------------------------------------------------------
(* Claims on to_bytes and from_bytes *)

\* C14: for every value x of a serializable type (Participant,
\* DiffieHellmanPrivateKey, DiffieHellmanPublicKey, IndividualVerifyingKey,
\* IndividualSigningKey, GroupKey, Commitment, CommitmentShare,
\* SecretCommitmentShareList, PublicCommitmentShareList), to_bytes(x) succeeds
\* and from_bytes of its bytes, as they are, returns x.
C14_RoundTrip ==
    (by_pc = "decoded" /\ by_tamper = "none") =>
        /\ to_bytes(by_type, by_value).ok
        /\ by_bytes = to_bytes(by_type, by_value).val
        /\ by_back.ok
        /\ by_back.val = by_value

C14_Witness ==
    /\ by_pc = "decoded"
    /\ by_tamper = "none"
    /\ by_type = "Participant"
    /\ by_value.commitments.some
    /\ Len(by_value.commitments.val.points) = MaxN
    /\ by_value.dh_public_key = GZero
    /\ by_back.ok
    /\ by_back.val = by_value

\* C15: from_bytes of every wire type returns a deserialization error, never
\* a value, when the input is too short, when bytes follow a valid encoding,
\* when a field is not canonical or no point of the group, and when the
\* input is 0xFF bytes throughout.
C15_MalformedIsRejected ==
    (by_pc = "decoded" /\ by_tamper # "none") =>
        /\ ~by_back.ok
        /\ by_back.err = deserialization_error(by_type)

\* what from_bytes does reject: the short input, the invalid field and the
\* 0xFF bytes; of an encoding with a byte after it, it returns the value
RejectedButTrailing ==
    by_pc = "decoded" =>
        /\ by_tamper \in {"short", "invalid", "garbage"} =>
               (~by_back.ok /\ by_back.err = deserialization_error(by_type))
        /\ by_tamper = "trailing" => (by_back.ok /\ by_back.val = by_value)

============================================================================
